---- MODULE Spec2Model ----
(***************************************************************************)
(* A model of the restore session driver of idevicerestore (src/restore.c). *)
(*                                                                         *)
(* Spec            restore_device: session open, side channel, start of    *)
(*                 the restore, the message loop with its handlers,        *)
(*                 teardown.                                               *)
(* SpecBootObject  restore_send_personalized_boot_object_v3 and            *)
(*                 restore_send_source_boot_object_v4, entered from the    *)
(*                 dispatch of their data request.                         *)
(* SpecNor         restore_send_nor, entered from the dispatch of a        *)
(*                 NORData request.                                        *)
(* SpecSignBbfw    restore_sign_bbfw, called for one archive and one       *)
(*                 baseband ticket response.                               *)
(* SpecBaseband    restore_send_baseband_data with restore_sign_bbfw, over *)
(*                 the BasebandData requests of one session.               *)
(* SpecBundle      restore_send_bootability_bundle_data and                *)
(*                 restore_handle_baseband_updater_output_data, entered    *)
(*                 from the dispatch of their message.                     *)
(*                                                                         *)
(* The reverse proxy build (HAVE_REVERSE_PROXY) is the side channel that   *)
(* is modelled.  HAVE_RESTORE_E_RECEIVE_TIMEOUT is a build-time switch of  *)
(* the message loop; both builds are modelled, the build being chosen in   *)
(* the initial state.                                                      *)
(*                                                                         *)
(* A plist field that is missing or has the wrong node type is the empty   *)
(* tuple <<>>; a field holding the value v is <<v>>.                       *)
(***************************************************************************)
EXTENDS Integers, Sequences, FiniteSets, TLC

\* ------------------------------------------------------------------ bounds
\* Number of restored_receive calls one session may make.
MaxReceive == 3

\* --------------------------------------------------------------- variables
VARIABLES
    HAVE_RESTORE_E_RECEIVE_TIMEOUT, \* build switch of the message loop
    flags,              \* client->flags
    pc,                 \* position of restore_device
    err,                \* restore_device's local err
    ret,                \* value restore_device returned (read when pc = "returned")
    restore_finished,   \* the static restore_finished
    rproxy,             \* reverse proxy object held: 0 NULL, 1 first, 2 second
    session,            \* client->restore: "none", "open", "freed"
    message,            \* the message being handled (<<>> when none)
    sent,               \* MsgType/reply key of every restored_send, in order
    released,           \* resources released so far, in order
    nreceive,           \* restored_receive calls made
    handlerFailed,      \* some handler has returned a negative value
    dispatchedAfterFail,\* messages handed to a handler after one had failed
    ndispatch,          \* messages handed to a handler
    last_status,        \* the last StatusMsg handled (NoMessage when none)
    restore_error,      \* restore_device's local restore_error
    \* restore_send_personalized_boot_object_v3 / restore_send_source_boot_object_v4
    bo_pc,              \* position of the handler
    bo_size,            \* size of the data to send
    bo_i,               \* the local i: bytes still to send
    bo_sent,            \* what restored_send has delivered, in order
    bo_ret,             \* value the handler returned (read when bo_pc = "returned")
    bo_send_failed,     \* a restored_send of the handler has failed
    \* restore_send_nor
    nor_pc,             \* position of the handler
    FlashVersion1,      \* the FlashVersion1 node of the request's Arguments
    flash_version_1,    \* the local flash_version_1
    firmware_files,     \* the dictionary firmware_files, in iteration order
    nor_seen,           \* components of the build identity's Manifest read so far
    nor_entry,          \* the Manifest entry the scan of the build identity is at
    nor_read,           \* manifest lines or Manifest entries read so far
    nor_idx,            \* where the iterator over firmware_files stands
    norimage,           \* the node norimage
    nor_dict,           \* the reply dict
    nor_sent,           \* what restored_send has delivered
    nor_ret,            \* value the handler returned (read when nor_pc = "returned")
    \* restore_send_baseband_data and restore_sign_bbfw
    bbtss,              \* client->restore->bbtss, the cached baseband ticket response
    bb_pc,              \* position of the handler
    bb_nonce,           \* the request carries a Nonce (bb_nonce is not NULL)
    response,           \* the local response of restore_send_baseband_data
    tss_requests,       \* the baseband ticket requests sent to the ticket authority
    bb_nrequests,       \* BasebandData requests handled so far
    bb_sent,            \* what restored_send has delivered
    bb_ret,             \* values the handler returned, one per request
    bbfw_ipsw,          \* the baseband firmware archive inside the firmware archive
    bbfw_file,          \* the temporary file bbfwtmp
    za,                 \* the archive restore_sign_bbfw has open
    sign_bbtss,         \* the argument bbtss of restore_sign_bbfw
    sign_k,             \* where the iterator over BasebandFirmware stands
    is_fls,             \* the local is_fls
    signed_file_idxs,   \* the local signed_file_idxs, signed_file_count long
    sign_res,           \* value restore_sign_bbfw returned
    \* restore_send_bootability_bundle_data, restore_handle_baseband_updater_output_data
    bu_handler,         \* which of the two handlers runs
    bu_pc,              \* position of the handler
    attempts,           \* the local attempts
    device_error,       \* the local device_error
    connection,         \* the connection to the data port
    bu_nconnect,        \* idevice_connect calls made
    bu_listing,         \* the entries ipsw_list_contents goes through
    bu_idx,             \* the entry ipsw_list_contents is at
    bu_stream,          \* what has been sent on the connection, in order
    bu_send_failed,     \* an idevice_connection_send has failed
    bu_file,            \* the updater output file: the chunks written to it
    bu_reads,           \* successful reads from the connection
    bu_ret,             \* value the handler returned (read when bu_pc = "returned")
    \* restore_handle_progress_msg
    protocol_version,   \* client->restore->protocol_version
    lastop,             \* the static lastop
    pr_n,               \* ProgressMsg messages handled
    pr_msg,             \* the ProgressMsg handled last
    adapted_operation,  \* the local adapted_operation of the last call
    pr_info,            \* the stage string the last call has logged with info()
    pr_step,            \* the step the last call has reported to idevicerestore_progress
    pr_ret,             \* value the last call returned
    \* the restore options
    opt_in,             \* what the options are composed from
    opts,               \* the dictionaries composed, in order
    \* restore_send_root_ticket
    rt_in,              \* client->root_ticket, client->tss, FLAG_CUSTOM, client->image4supported
    rt_pc,              \* position of the handler
    rt_dict,            \* the local dict
    rt_sent,            \* what restored_send has sent
    rt_ret,             \* value the handler returned
    \* restore_send_image_data
    im_in,              \* the request, its Arguments and the Manifest of the build identity
    im_pc,              \* position of the handler
    im_idx,             \* the Manifest entry the iterator is at
    matched_images,     \* the local matched_images
    data_dict,          \* the local data_dict
    im_failed,          \* a component asked for was not extracted or not personalized
    im_sent,            \* what restored_send has sent
    im_ret,             \* value the handler returned
    \* restore_send_firmware_updater_data
    fu_in,              \* the FirmwareUpdaterData request and what its helper will meet
    fu_pc,              \* where restore_send_firmware_updater_data is
    fwdict,             \* the local fwdict
    fu_log,             \* what the helper logged about the ticket
    fu_sent,            \* what restored_send has sent
    fu_ret,             \* value the handler returned
    \* restore_open_with_timeout, restore_reboot, restore_client_free
    mode,               \* client->mode, written by the device-event callback
    cl_restore,         \* client->restore is allocated
    cl_client,          \* client->restore->client: 0 for NULL, else the handle it points to
    handle_frees,       \* per handle, the number of restored_client_free calls on it
    nopens,             \* handles created so far
    nreboots,           \* restore_reboot calls so far
    rb_pc,              \* idle, or where restore_reboot is
    rb_clock,           \* time since the reboot was sent, in ticks
    rb_signalled,       \* device_event_cond was signalled for the waiter
    rb_left,            \* the tick at which the device first left restore mode, or -1
    rb_call,            \* the call that returned last
    rb_ret,             \* value the last call returned
    rb_ret_at           \* the tick at which restore_reboot returned

\* what the loop's bookkeeping of handler calls consists of
calls == <<handlerFailed, dispatchedAfterFail, ndispatch, last_status>>

\* restore_device
driver == <<HAVE_RESTORE_E_RECEIVE_TIMEOUT, flags, pc, err, ret, restore_finished,
            rproxy, session, message, sent, released, nreceive, restore_error, calls>>

\* the boot object handlers
bootobj == <<bo_pc, bo_size, bo_i, bo_sent, bo_ret, bo_send_failed>>

\* what the handlers of the data requests work on
\* restore_send_nor
nor == <<nor_pc, FlashVersion1, flash_version_1, firmware_files, nor_seen, nor_entry, nor_read, nor_idx,
         norimage, nor_dict, nor_sent, nor_ret>>

\* restore_send_baseband_data and restore_sign_bbfw
baseband == <<bbtss, bb_pc, bb_nonce, response, tss_requests, bb_nrequests, bb_sent, bb_ret,
              bbfw_ipsw, bbfw_file, za, sign_bbtss, sign_k, is_fls, signed_file_idxs,
              sign_res>>

\* restore_send_bootability_bundle_data, restore_handle_baseband_updater_output_data
bundle == <<bu_handler, bu_pc, attempts, device_error, connection, bu_nconnect, bu_listing,
            bu_idx, bu_stream, bu_send_failed, bu_file, bu_reads, bu_ret>>

\* restore_handle_progress_msg
progressmsg == <<protocol_version, lastop, pr_n, pr_msg, adapted_operation, pr_info,
                 pr_step, pr_ret>>

\* the handlers that send in several steps
streams == <<bootobj, nor, baseband, bundle>>

\* the options of restored_start_restore
options == <<opt_in, opts>>

\* restore_send_root_ticket
rootticket == <<rt_in, rt_pc, rt_dict, rt_sent, rt_ret>>

\* restore_send_image_data
imagedata == <<im_in, im_pc, im_idx, matched_images, data_dict, im_failed, im_sent, im_ret>>

\* restore_send_firmware_updater_data
fwupdater == <<fu_in, fu_pc, fwdict, fu_log, fu_sent, fu_ret>>

\* restore_open_with_timeout, restore_reboot, restore_client_free
channel == <<mode, cl_restore, cl_client, handle_frees, nopens, nreboots, rb_pc, rb_clock, rb_signalled, rb_left, rb_call, rb_ret, rb_ret_at>>

\* the handlers that make one reply, and the options
replies == <<progressmsg, options, rootticket, imagedata, fwupdater, channel>>

handlers == <<streams, replies>>

vars == <<driver, handlers>>

\* ---------------------------------------------------------------- messages
NoField == <<>>

Has(f) == Len(f) = 1

\* AMRError values: 1, 11, 2^32 (low 32 bits zero) and 2^64 - 1.
\* An unsigned 64-bit value is held as its high word being zero or not (hi)
\* and its low 32 bits read as a signed 32-bit integer (lo).
AMRErrorValues ==
    {[hi |-> 0, lo |-> 1], [hi |-> 0, lo |-> 11], [hi |-> 1, lo |-> 0],
     [hi |-> 1, lo |-> -1]}

StatusValues == {0, 6}

DataTypes == {"SystemImageData", "RecoveryOSASRImage", "NORData", "RootTicket",
              "BasebandData", "PersonalizedBootObjectV3", "SourceBootObjectV4", "FooData"}

\* failed: whether the action the request is routed to fails.
DataRequestMsgs ==
    [MsgType : {"DataRequestMsg"},
     DataType : {NoField} \cup {<<t>> : t \in DataTypes},
     failed : BOOLEAN]

PreviousRestoreLogMsgs ==
    [MsgType : {"PreviousRestoreLogMsg"},
     PreviousRestoreLog : {NoField, <<"log">>}]

ProgressMsgs ==
    [MsgType : {"ProgressMsg"},
     Operation : {NoField, <<14>>, <<47>>},
     Progress : {NoField, <<50>>}]

StatusMsgs ==
    [MsgType : {"StatusMsg"},
     Status : {NoField} \cup {<<s>> : s \in StatusValues},
     AMRError : {NoField} \cup {<<e>> : e \in AMRErrorValues}]

CheckpointMsgs ==
    [MsgType : {"CheckpointMsg"},
     CHECKPOINT_ID : {NoField, <<1>>},
     CHECKPOINT_RESULT : {NoField, <<0>>},
     CHECKPOINT_COMPLETE : {NoField, <<TRUE>>}]

BBUpdateStatusMsgs ==
    [MsgType : {"BBUpdateStatusMsg"},
     Accepted : {NoField, <<FALSE>>, <<TRUE>>}]

\* connected: whether the device data port could be connected to.
BasebandUpdaterOutputMsgs ==
    [MsgType : {"BasebandUpdaterOutputData"},
     connected : BOOLEAN]

OtherMsgs == [MsgType : {"FDRSubmit"}]

\* A message without a string MsgType.
UntypedMsgs == [MsgType : {""}]

Messages ==
    DataRequestMsgs \cup PreviousRestoreLogMsgs \cup ProgressMsgs \cup StatusMsgs
    \cup CheckpointMsgs \cup BBUpdateStatusMsgs \cup BasebandUpdaterOutputMsgs
    \cup OtherMsgs \cup UntypedMsgs

NoMessage == [MsgType |-> "NULL"]

\* ---------------------------------------------------------------- handlers
\* restore_handle_previous_restore_log_msg
restore_handle_previous_restore_log_msg(msg) ==
    IF ~Has(msg.PreviousRestoreLog) THEN -1 ELSE 0

\* A variant that lets a ProgressMsg without Progress pass.
restore_handle_progress_msg_lenient(msg) ==
    IF ~Has(msg.Operation) THEN -1 ELSE 0

\* restore_handle_progress_msg: the value it returns
restore_handle_progress_msg(msg) ==
    IF ~Has(msg.Operation) THEN -1
    ELSE IF ~Has(msg.Progress) THEN -1
    ELSE 0

\* The value of the local `value` after plist_get_uint_val(node, &value):
\* it keeps its initial 0 when Status is missing or no unsigned integer.
StatusValue(msg) == IF Has(msg.Status) THEN msg.Status[1] ELSE 0

\* restore_handle_status_msg: the new value of restore_finished
StatusFinished(msg, finished) == IF StatusValue(msg) = 0 THEN 1 ELSE finished

INT_MIN == -2147483647 - 1

\* (int)(-value) for an unsigned 64-bit value whose low word is lo.
NegateToInt(lo) == IF lo = INT_MIN THEN INT_MIN ELSE -lo

\* restore_handle_status_msg: the value it returns
restore_handle_status_msg(msg) ==
    IF Has(msg.AMRError)
    THEN LET result == NegateToInt(msg.AMRError[1].lo)
         IN  IF result > 0 THEN -result ELSE result
    ELSE 0

\* restore_handle_bb_update_status_msg
restore_handle_bb_update_status_msg(msg) ==
    LET accepted == IF Has(msg.Accepted) THEN msg.Accepted[1] ELSE FALSE
    IN  IF ~accepted THEN -1 ELSE 0

\* restore_handle_baseband_updater_output_data: the value it returns
restore_handle_baseband_updater_output_data(msg) ==
    IF ~msg.connected THEN -1 ELSE 0

FilesystemDataTypes == {"SystemImageData", "RecoveryOSASRImage"}

\* The data types restore_handle_data_request_msg has a branch for.
HandledDataTypes ==
    {"SystemImageData", "BuildIdentityDict", "PersonalizedBootObjectV3", "SourceBootObjectV4",
     "RecoveryOSLocalPolicy", "RecoveryOSASRImage", "RecoveryOSRootTicketData", "RootTicket",
     "KernelCache", "DeviceTree", "SystemImageRootHash", "SystemImageCanonicalMetadata",
     "NORData", "BasebandData", "FDRTrustData", "FUDData", "FirmwareUpdaterData",
     "PersonalizedData", "EANData", "BootabilityBundle"}

\* restore_handle_data_request_msg: whether the request's action is run
DataRequestRuns(msg, f) ==
    /\ Has(msg.DataType)
    /\ msg.DataType[1] \in HandledDataTypes
    /\ (msg.DataType[1] = "NORData" => "FLAG_EXCLUDE" \notin f)

\* A variant that returns -1 for every action that fails
restore_handle_data_request_msg_MinusOne(msg, f) ==
    IF DataRequestRuns(msg, f) /\ msg.failed THEN -1 ELSE 0

\* restore_handle_data_request_msg: the value it returns
restore_handle_data_request_msg(msg, f) ==
    IF DataRequestRuns(msg, f) /\ msg.failed
    THEN IF msg.DataType[1] \in FilesystemDataTypes THEN -2 ELSE -1
    ELSE 0

\* A variant that leaves client->flags alone.
DataRequestFlags_NoQuit(msg, f) == f

\* restore_handle_data_request_msg: client->flags afterwards
DataRequestFlags(msg, f) ==
    IF Has(msg.DataType) /\ msg.DataType[1] = "NORData" /\ "FLAG_EXCLUDE" \in f
    THEN f \cup {"FLAG_QUIT"}
    ELSE f

\* restore_handle_data_request_msg: what goes out on the restore channel
\* (the filesystem goes over ASR, not over the restore channel)
DataRequestSent(msg, f) ==
    IF DataRequestRuns(msg, f) /\ ~msg.failed
       /\ msg.DataType[1] \notin FilesystemDataTypes
    THEN <<msg.DataType[1]>>
    ELSE <<>>

\* ------------------------------------------------------------- restore_device
InitDriver ==
    /\ HAVE_RESTORE_E_RECEIVE_TIMEOUT \in BOOLEAN
    /\ flags \in SUBSET {"FLAG_IGNORE_ERRORS", "FLAG_EXCLUDE"}
    /\ pc = "entry"
    /\ err = 0
    /\ ret = 0
    /\ restore_finished \in {0, 1}      \* a static: an earlier session may have set it
    /\ rproxy = 0
    /\ session = "none"
    /\ message = NoMessage
    /\ sent = <<>>
    /\ released = <<>>
    /\ nreceive = 0
    /\ restore_error = "RESTORE_E_SUCCESS"
    /\ handlerFailed = FALSE
    /\ dispatchedAfterFail = 0
    /\ ndispatch = 0
    /\ last_status = NoMessage

\* restore_device's return value when restore_open_with_timeout gave e < 0
OpenFailureCode(e) == IF e = -2 THEN -1 ELSE -2

\* Entry of restore_device up to the open of the session; restore_open_with_timeout
\* returns 0 or -1.
OpenSession ==
    /\ pc = "entry"
    /\ restore_finished' = 0
    /\ \E e \in {0, -1} :
        /\ err' = e
        /\ IF e < 0
           THEN /\ pc' = "returned"
                /\ ret' = OpenFailureCode(e)
                /\ session' = session
           ELSE /\ pc' = "side_channel"
                /\ ret' = ret
                /\ session' = "open"
    /\ UNCHANGED <<handlers, HAVE_RESTORE_E_RECEIVE_TIMEOUT, flags, rproxy, message, sent,
                   released, nreceive, restore_error, calls>>

\* The reverse proxy object held after the start-up of the side channel:
\* create, start with protocol 2, and on rejection free, create again and
\* start with protocol 1 (whose failure is only logged).
ProxyAfterStart(create1, start2, create2) ==
    IF ~create1 THEN 0
    ELSE IF start2 THEN 1
    ELSE IF create2 THEN 2 ELSE 0

\* What the start-up of the side channel frees.
ProxyFreedAtStart(create1, start2) ==
    IF create1 /\ ~start2 THEN <<"rproxy1">> ELSE <<>>

StartReverseProxy ==
    /\ pc = "side_channel"
    /\ \E create1, start2, create2 \in BOOLEAN :
        /\ rproxy' = ProxyAfterStart(create1, start2, create2)
        /\ released' = released \o ProxyFreedAtStart(create1, start2)
    /\ pc' = "start_restore"
    /\ UNCHANGED <<handlers, HAVE_RESTORE_E_RECEIVE_TIMEOUT, flags, err, ret, restore_finished,
                   session, message, sent, nreceive, restore_error, calls>>

ProxyName(r) == IF r = 1 THEN "rproxy1" ELSE "rproxy2"

\* restored_start_restore with the options dictionary
StartRestore ==
    /\ pc = "start_restore"
    /\ \E re \in {"RESTORE_E_SUCCESS", "RESTORE_E_MUX_ERROR"} :
        /\ restore_error' = re
        /\ IF re = "RESTORE_E_SUCCESS"
           THEN /\ pc' = "loop"
                /\ UNCHANGED <<ret, session, released>>
           ELSE /\ pc' = "returned"
                /\ ret' = -1
                /\ session' = "freed"
                /\ released' = released \o <<"session">>
    /\ UNCHANGED <<handlers, HAVE_RESTORE_E_RECEIVE_TIMEOUT, flags, err, restore_finished,
                   rproxy, message, sent, nreceive, calls>>

\* The head of a loop iteration: err after the FLAG_IGNORE_ERRORS reset
LoopErr(e, f) == IF "FLAG_IGNORE_ERRORS" \in f THEN 0 ELSE e

\* The head of a loop iteration: client->flags after the err < 0 test
LoopFlags(e, f) == IF LoopErr(e, f) < 0 THEN f \cup {"FLAG_QUIT"} ELSE f

\* The while condition and the head of the iteration
LoopHead ==
    /\ pc = "loop"
    /\ IF "FLAG_QUIT" \in flags
       THEN /\ pc' = "teardown"
            /\ UNCHANGED <<err, flags>>
       ELSE /\ err' = LoopErr(err, flags)
            /\ flags' = LoopFlags(err, flags)
            /\ pc' = "receive"        \* also when FLAG_QUIT has just been set
    /\ UNCHANGED <<handlers, HAVE_RESTORE_E_RECEIVE_TIMEOUT, ret, restore_finished, rproxy,
                   session, message, sent, released, nreceive, restore_error, calls>>

\* A variant in which a timeout is an error like any other.
ReceiveOutcome_TimeoutFatal(have, re) ==
    IF re # "RESTORE_E_SUCCESS" THEN "break" ELSE "dispatch"

\* A variant in which no error of restored_receive ends the loop.
ReceiveOutcome_ErrorsContinue(have, re) ==
    IF re # "RESTORE_E_SUCCESS" THEN "continue" ELSE "dispatch"

\* What the loop does with the value restored_receive returned:
\* "continue" (empty tick), "break" (leave the loop with err = -11) or
\* "dispatch" (a message was read).
ReceiveOutcome(have, re) ==
    IF have
    THEN IF re = "RESTORE_E_RECEIVE_TIMEOUT" THEN "continue"
         ELSE IF re # "RESTORE_E_SUCCESS" THEN "break"
         ELSE "dispatch"
    ELSE IF re # "RESTORE_E_SUCCESS" THEN "continue"
         ELSE "dispatch"

\* One call of restored_receive returning re, and the branch taken on it.
Receive(re) ==
    /\ pc = "receive"
    /\ nreceive < MaxReceive
    /\ nreceive' = nreceive + 1
    /\ restore_error' = re
    /\ LET outcome == ReceiveOutcome(HAVE_RESTORE_E_RECEIVE_TIMEOUT, re)
       IN  /\ pc' = CASE outcome = "continue" -> "loop"
                      [] outcome = "break" -> "teardown"
                      [] OTHER -> "dispatch"
           /\ err' = IF outcome = "break" THEN -11 ELSE err
           /\ IF outcome = "dispatch"
              THEN message' \in Messages
              ELSE message' = NoMessage
    /\ UNCHANGED <<handlers, HAVE_RESTORE_E_RECEIVE_TIMEOUT, flags, ret, restore_finished,
                   rproxy, session, sent, released, calls>>

\* restored_receive timed out
ReceiveTimeout == Receive("RESTORE_E_RECEIVE_TIMEOUT")

\* restored_receive failed with an error that is no timeout
ReceiveError == Receive("RESTORE_E_MUX_ERROR")

\* restored_receive delivered a message
ReceiveMessage == Receive("RESTORE_E_SUCCESS")

\* A handler was called with the message and returned result; the message is
\* freed at the end of the iteration.
Handled(result) ==
    /\ err' = result
    /\ handlerFailed' = (handlerFailed \/ result < 0)
    /\ dispatchedAfterFail' = dispatchedAfterFail + (IF handlerFailed THEN 1 ELSE 0)
    /\ ndispatch' = ndispatch + 1
    /\ last_status' = IF message.MsgType = "StatusMsg" THEN message ELSE last_status
    /\ message' = NoMessage
    /\ pc' = "loop"

\* The message is logged and freed without any handler being called.
Skipped ==
    /\ message' = NoMessage
    /\ pc' = "loop"
    /\ UNCHANGED <<handlers, HAVE_RESTORE_E_RECEIVE_TIMEOUT, flags, err, ret, restore_finished,
                   rproxy, session, sent, released, nreceive, restore_error, calls>>

\* A message without a string MsgType
SkipUntyped ==
    /\ pc = "dispatch"
    /\ message.MsgType = ""
    /\ Skipped

HandleDataRequestMsg ==
    /\ pc = "dispatch"
    /\ message.MsgType = "DataRequestMsg"
    /\ Handled(restore_handle_data_request_msg(message, flags))
    /\ flags' = DataRequestFlags(message, flags)
    /\ sent' = sent \o DataRequestSent(message, flags)
    /\ UNCHANGED <<handlers, HAVE_RESTORE_E_RECEIVE_TIMEOUT, ret, restore_finished, rproxy,
                   session, released, nreceive, restore_error>>

HandlePreviousRestoreLogMsg ==
    /\ pc = "dispatch"
    /\ message.MsgType = "PreviousRestoreLogMsg"
    /\ Handled(restore_handle_previous_restore_log_msg(message))
    /\ UNCHANGED <<handlers, HAVE_RESTORE_E_RECEIVE_TIMEOUT, flags, ret, restore_finished,
                   rproxy, session, sent, released, nreceive, restore_error>>

HandleProgressMsg ==
    /\ pc = "dispatch"
    /\ message.MsgType = "ProgressMsg"
    /\ Handled(restore_handle_progress_msg(message))
    /\ UNCHANGED <<handlers, HAVE_RESTORE_E_RECEIVE_TIMEOUT, flags, ret, restore_finished,
                   rproxy, session, sent, released, nreceive, restore_error>>

\* What the StatusMsg branch sends once restore_finished is set.
FinalStatusReply(finished) ==
    IF finished # 0 THEN <<"ReceivedFinalStatusMsg">> ELSE <<>>

\* A variant that forgets to set FLAG_QUIT.
FinalStatusFlags_NoQuit(finished, f) == f

\* client->flags after the StatusMsg branch
FinalStatusFlags(finished, f) ==
    IF finished # 0 THEN f \cup {"FLAG_QUIT"} ELSE f

HandleStatusMsg ==
    /\ pc = "dispatch"
    /\ message.MsgType = "StatusMsg"
    /\ Handled(restore_handle_status_msg(message))
    /\ restore_finished' = StatusFinished(message, restore_finished)
    /\ sent' = sent \o FinalStatusReply(restore_finished')
    /\ flags' = FinalStatusFlags(restore_finished', flags)
    /\ UNCHANGED <<handlers, HAVE_RESTORE_E_RECEIVE_TIMEOUT, ret, rproxy, session, released,
                   nreceive, restore_error>>

\* The CheckpointMsg branch: whether it returns from restore_device
CheckpointReturns(msg) ==
    ~Has(msg.CHECKPOINT_ID) \/ ~Has(msg.CHECKPOINT_RESULT)

\* The CheckpointMsg branch, which is inline in the loop and leaves err alone
HandleCheckpointMsg ==
    /\ pc = "dispatch"
    /\ message.MsgType = "CheckpointMsg"
    /\ IF CheckpointReturns(message)
       THEN /\ pc' = "returned"
            /\ ret' = -1
            /\ UNCHANGED message
       ELSE /\ pc' = "loop"
            /\ message' = NoMessage
            /\ UNCHANGED ret
    /\ ndispatch' = ndispatch + 1
    /\ dispatchedAfterFail' = dispatchedAfterFail + (IF handlerFailed THEN 1 ELSE 0)
    /\ UNCHANGED <<handlers, HAVE_RESTORE_E_RECEIVE_TIMEOUT, flags, err, restore_finished, rproxy,
                   session, sent, released, nreceive, restore_error, handlerFailed,
                   last_status>>

HandleBBUpdateStatusMsg ==
    /\ pc = "dispatch"
    /\ message.MsgType = "BBUpdateStatusMsg"
    /\ Handled(restore_handle_bb_update_status_msg(message))
    /\ UNCHANGED <<handlers, HAVE_RESTORE_E_RECEIVE_TIMEOUT, flags, ret, restore_finished,
                   rproxy, session, sent, released, nreceive, restore_error>>

HandleBasebandUpdaterOutputData ==
    /\ pc = "dispatch"
    /\ message.MsgType = "BasebandUpdaterOutputData"
    /\ Handled(restore_handle_baseband_updater_output_data(message))
    /\ UNCHANGED <<handlers, HAVE_RESTORE_E_RECEIVE_TIMEOUT, flags, ret, restore_finished,
                   rproxy, session, sent, released, nreceive, restore_error>>

\* A message of a type the loop has no branch for
SkipUnknownType ==
    /\ pc = "dispatch"
    /\ message.MsgType \in {m.MsgType : m \in OtherMsgs}
    /\ Skipped

\* What the end of restore_device releases, in order.
TeardownReleases(r) ==
    (IF r # 0 THEN <<ProxyName(r)>> ELSE <<>>) \o <<"session">>

\* The end of restore_device: release of the side channel and of the session
Teardown ==
    /\ pc = "teardown"
    /\ released' = released \o TeardownReleases(rproxy)
    /\ session' = "freed"
    /\ ret' = err
    /\ pc' = "returned"
    /\ UNCHANGED <<handlers, HAVE_RESTORE_E_RECEIVE_TIMEOUT, flags, err, restore_finished,
                   rproxy, message, sent, nreceive, restore_error, calls>>

DriverStep ==
    \/ OpenSession
    \/ StartReverseProxy
    \/ StartRestore
    \/ LoopHead
    \/ ReceiveTimeout
    \/ ReceiveError
    \/ ReceiveMessage
    \/ SkipUntyped
    \/ HandleDataRequestMsg
    \/ HandlePreviousRestoreLogMsg
    \/ HandleProgressMsg
    \/ HandleStatusMsg
    \/ HandleCheckpointMsg
    \/ HandleBBUpdateStatusMsg
    \/ HandleBasebandUpdaterOutputData
    \/ SkipUnknownType
    \/ Teardown

\* The driver at the point where it hands one of the messages in msgs to its
\* handler, with one of the sets of flags in fs.
Dispatching(msgs, fs) ==
    /\ HAVE_RESTORE_E_RECEIVE_TIMEOUT \in BOOLEAN
    /\ flags \in fs
    /\ pc = "dispatch"
    /\ err = 0
    /\ ret = 0
    /\ restore_finished = 0
    /\ rproxy = 1
    /\ session = "open"
    /\ message \in msgs
    /\ sent = <<>>
    /\ released = <<>>
    /\ nreceive = 1
    /\ restore_error = "RESTORE_E_SUCCESS"
    /\ handlerFailed = FALSE
    /\ dispatchedAfterFail = 0
    /\ ndispatch = 0
    /\ last_status = NoMessage

AtDispatch(msgs) == Dispatching(msgs, {{}})

\* The driver at the point where it hands a DataRequestMsg of one of the data
\* types in ts to restore_handle_data_request_msg.
AtDataRequest(ts) ==
    AtDispatch({[MsgType |-> "DataRequestMsg", DataType |-> <<t>>, failed |-> FALSE] : t \in ts})

\* ------------------------------------------------- boot object data requests
\* restore_send_personalized_boot_object_v3 and restore_send_source_boot_object_v4
\* differ in what the data is (personalized or raw); how it is sent is the same.

\* Largest number of full chunks a payload of the model has.
MaxChunks == 2

\* The byte count of one FileData message.
FILE_DATA_CHUNK == 8192

\* Payload sizes: around every multiple of the chunk size.
PayloadSizes ==
    {n \in {k * FILE_DATA_CHUNK + d : k \in 0..MaxChunks, d \in {-1, 0, 1}} : n >= 0}

BootObjectIdle ==
    /\ bo_pc = "idle"
    /\ bo_size = 0
    /\ bo_i = 0
    /\ bo_sent = <<>>
    /\ bo_ret = 0
    /\ bo_send_failed = FALSE

\* A variant that cuts the chunks one byte short of the limit.
BlobSize_OffByOne(i) == IF i >= FILE_DATA_CHUNK THEN FILE_DATA_CHUNK - 1 ELSE i

\* int blob_size = i > 8192 ? 8192 : i;
BlobSize(i) == IF i > FILE_DATA_CHUNK THEN FILE_DATA_CHUNK ELSE i

\* The FileData message for the bytes data[size - i .. size - i + blob_size - 1]:
\* the blob is named by where it starts in the data and how long it is.
FileData(size, i) == [key |-> "FileData", off |-> size - i, len |-> BlobSize(i)]

FileDataDone == [key |-> "FileDataDone", off |-> 0, len |-> 0]

\* The part before the data is sent: the ImageName argument is read and the
\* data is extracted (and, for V3, personalized); each of these can fail.
BootObjectPrepare ==
    /\ bo_pc = "entry"
    /\ \E ok \in BOOLEAN, size \in PayloadSizes :
        IF ok
        THEN /\ bo_size' = size
             /\ bo_i' = size
             /\ bo_pc' = "send"
             /\ bo_ret' = bo_ret
        ELSE /\ bo_pc' = "returned"
             /\ bo_ret' = -1
             /\ UNCHANGED <<bo_size, bo_i>>
    /\ UNCHANGED <<driver, replies, nor, baseband, bundle, bo_sent, bo_send_failed>>

\* One iteration of while (i > 0): a FileData message is sent.
BootObjectSendChunk ==
    /\ bo_pc = "send"
    /\ bo_i > 0
    /\ \E restore_error_ok \in BOOLEAN :
        IF restore_error_ok
        THEN /\ bo_sent' = Append(bo_sent, FileData(bo_size, bo_i))
             /\ bo_i' = bo_i - BlobSize(bo_i)
             /\ UNCHANGED <<bo_pc, bo_ret, bo_send_failed>>
        ELSE /\ bo_pc' = "returned"
             /\ bo_ret' = -1
             /\ bo_send_failed' = TRUE
             /\ UNCHANGED <<bo_sent, bo_i>>
    /\ UNCHANGED <<driver, replies, nor, baseband, bundle, bo_size>>

\* After the loop: FileDataDone is sent.
BootObjectSendDone ==
    /\ bo_pc = "send"
    /\ ~(bo_i > 0)
    /\ \E restore_error_ok \in BOOLEAN :
        IF restore_error_ok
        THEN /\ bo_sent' = Append(bo_sent, FileDataDone)
             /\ bo_ret' = 0
             /\ UNCHANGED bo_send_failed
        ELSE /\ bo_ret' = -1
             /\ bo_send_failed' = TRUE
             /\ UNCHANGED bo_sent
    /\ bo_pc' = "returned"
    /\ UNCHANGED <<driver, replies, nor, baseband, bundle, bo_size, bo_i>>

\* ------------------------------------------------------ NORData data request
\* restore_send_nor.  A string is the sequence of its characters.

\* Largest number of manifest lines, or Manifest entries, the handler reads.
MaxFirmwareFiles == 3

LLB == <<"L", "L", "B">>

RestoreSEP == <<"R", "e", "s", "t", "o", "r", "e", "S", "E", "P">>

iBoot == <<"i", "B", "o", "o", "t">>

\* The component names firmware manifests carry.
ComponentNames ==
    {LLB, RestoreSEP, iBoot,
     <<"i", "B", "o", "o", "t", "D", "a", "t", "a">>,
     <<"i", "B", "S", "S">>,
     <<"D", "e", "v", "i", "c", "e", "T", "r", "e", "e">>}

Min(a, b) == IF a < b THEN a ELSE b

\* strncmp(s1, s2, n) == 0
strncmp_equal(s1, s2, n) ==
    SubSeq(s1, 1, Min(n, Len(s1))) = SubSeq(s2, 1, Min(n, Len(s2)))

\* A dictionary is the sequence of its [key, val] items, in iteration order.
plist_dict_set_item(d, key, val) ==
    IF \E k \in 1..Len(d) : d[k].key = key
    THEN [k \in 1..Len(d) |-> IF d[k].key = key THEN [key |-> key, val |-> val] ELSE d[k]]
    ELSE Append(d, [key |-> key, val |-> val])

plist_dict_get_item(d, key) ==
    LET ks == {k \in 1..Len(d) : d[k].key = key}
    IN  IF ks = {} THEN NoField ELSE <<d[CHOOSE k \in ks : TRUE].val>>

plist_array_insert_item(a, item, n) == SubSeq(a, 1, n) \o <<item>> \o SubSeq(a, n + 1, Len(a))

plist_array_append_item(a, item) == Append(a, item)

\* The data personalize_component makes of a component.
personalize_component(component) == [personalized |-> component]

\* A variant that appends every component.
NorImageAdd_AppendOnly(image, component) ==
    [image EXCEPT !.items = plist_array_append_item(@, personalize_component(component))]

\* How a personalized component enters norimage.
NorImageAdd(image, component) ==
    IF image.type = "PLIST_DICT"
    THEN [image EXCEPT !.items = plist_dict_set_item(@, component, personalize_component(component))]
    ELSE IF strncmp_equal(iBoot, component, 5)
         THEN [image EXCEPT !.items = plist_array_insert_item(@, personalize_component(component), 0)]
         ELSE [image EXCEPT !.items = plist_array_append_item(@, personalize_component(component))]

\* No Manifest entry: component and manifest_entry are NULL.
NoEntry == [component |-> <<>>, is_fw |-> FALSE, is_secondary_fw |-> FALSE,
            loaded_by_iboot |-> FALSE, Path |-> NoField]

NorIdleAt(p) ==
    /\ nor_pc = p
    /\ FlashVersion1 \in (IF p = "entry" THEN {NoField, <<TRUE>>, <<FALSE>>} ELSE {NoField})
    /\ flash_version_1 = 0
    /\ firmware_files = <<>>
    /\ nor_seen = {}
    /\ nor_entry = NoEntry
    /\ nor_read = 0
    /\ nor_idx = 0
    /\ norimage = [type |-> "NULL", items |-> <<>>]
    /\ nor_dict = <<>>
    /\ nor_sent = <<>>
    /\ nor_ret = 0


NorReturn(r) ==
    /\ nor_pc' = "returned"
    /\ nor_ret' = r

\* The Arguments are read, the LLB path is found and the manifest file is
\* looked for in the firmware archive.
NorBegin ==
    /\ nor_pc = "entry"
    /\ \E llb_path_ok \in BOOLEAN, manifest_data \in BOOLEAN :
        /\ flash_version_1' = IF Has(FlashVersion1) THEN 1 ELSE 0
        /\ IF ~llb_path_ok
           THEN NorReturn(-1)
           ELSE /\ nor_pc' = IF manifest_data THEN "manifest_file" ELSE "build_identity"
                /\ UNCHANGED nor_ret
    /\ UNCHANGED <<driver, replies, bootobj, baseband, bundle, FlashVersion1,
                   nor_entry, firmware_files, nor_seen, nor_read, nor_idx,
                   norimage, nor_dict, nor_sent>>

\* One line of the manifest file; compname is NoField for an empty line and for
\* a file name get_component_name does not know.
NorManifestLine ==
    /\ nor_pc = "manifest_file"
    /\ nor_read < MaxFirmwareFiles
    /\ \E compname \in {<<c>> : c \in ComponentNames} \cup {NoField} :
        firmware_files' = IF Has(compname)
                          THEN plist_dict_set_item(firmware_files, compname[1], "PLIST_STRING")
                          ELSE firmware_files
    /\ nor_read' = nor_read + 1
    /\ UNCHANGED <<driver, replies, bootobj, baseband, bundle, FlashVersion1,
                   nor_entry, nor_pc, flash_version_1, nor_seen, nor_idx,
                   norimage, nor_dict, nor_sent, nor_ret>>

\* A variant that takes the primary firmware payloads only.
IsFirmwareFile_PrimaryOnly(is_fw, is_secondary_fw, loaded_by_iboot) == is_fw

\* Whether an entry of the build identity's Manifest is a firmware file.
IsFirmwareFile(is_fw, is_secondary_fw, loaded_by_iboot) ==
    is_fw \/ (is_secondary_fw /\ loaded_by_iboot)

\* One entry of the build identity's Manifest; Path is the type of Info.Path.
NorManifestEntry ==
    /\ nor_pc = "build_identity"
    /\ nor_read < MaxFirmwareFiles
    /\ \E component \in ComponentNames \ nor_seen,
          is_fw \in BOOLEAN, is_secondary_fw \in BOOLEAN, loaded_by_iboot \in BOOLEAN,
          Path \in {NoField, <<"PLIST_STRING">>, <<"PLIST_DATA">>} :
        /\ firmware_files' =
              IF IsFirmwareFile(is_fw, is_secondary_fw, loaded_by_iboot) /\ Has(Path)
              THEN plist_dict_set_item(firmware_files, component, Path[1])
              ELSE firmware_files
        /\ nor_seen' = nor_seen \cup {component}
        /\ nor_entry' = [component |-> component, is_fw |-> is_fw,
                         is_secondary_fw |-> is_secondary_fw,
                         loaded_by_iboot |-> loaded_by_iboot, Path |-> Path]
    /\ nor_read' = nor_read + 1
    /\ UNCHANGED <<driver, replies, bootobj, baseband, bundle, FlashVersion1,
                   nor_pc, flash_version_1, nor_idx,
                   norimage, nor_dict, nor_sent, nor_ret>>

\* After the firmware files are collected: LLB is extracted and personalized
\* into LlbImageData, and norimage is created.
NorLLB ==
    /\ nor_pc \in {"manifest_file", "build_identity"}
    /\ \E extract_ok \in BOOLEAN, personalize_ok \in BOOLEAN :
        IF Len(firmware_files) = 0 \/ ~extract_ok \/ ~personalize_ok
        THEN /\ NorReturn(-1)
             /\ UNCHANGED <<nor_dict, norimage, nor_idx>>
        ELSE /\ nor_dict' = plist_dict_set_item(<<>>, "LlbImageData", personalize_component(LLB))
             /\ norimage' = [type |-> IF flash_version_1 # 0 THEN "PLIST_DICT" ELSE "PLIST_ARRAY",
                             items |-> <<>>]
             /\ nor_idx' = 1
             /\ nor_pc' = "iterate"
             /\ UNCHANGED nor_ret
    /\ nor_entry' = NoEntry
    /\ UNCHANGED <<driver, replies, bootobj, baseband, bundle, FlashVersion1,
                   flash_version_1, firmware_files, nor_seen, nor_read,
                   nor_sent>>

\* A variant that skips LLB only.
NorSkips_OnlyLLB(comp, pcomp) == pcomp # "PLIST_STRING" \/ comp = LLB

\* The firmware files the iteration passes over: those whose path is not a
\* string, LLB and RestoreSEP.
NorSkips(comp, pcomp) == pcomp # "PLIST_STRING" \/ comp = LLB \/ comp = RestoreSEP

\* One iteration over firmware_files.
NorNextComponent ==
    /\ nor_pc = "iterate"
    /\ nor_idx <= Len(firmware_files)
    /\ LET comp == firmware_files[nor_idx].key
           pcomp == firmware_files[nor_idx].val
       IN  IF NorSkips(comp, pcomp)
           THEN /\ nor_idx' = nor_idx + 1
                /\ UNCHANGED <<nor_pc, nor_ret, norimage>>
           ELSE \E extract_ok \in BOOLEAN, personalize_ok \in BOOLEAN :
                  IF ~extract_ok \/ ~personalize_ok
                  THEN /\ NorReturn(-1)
                       /\ UNCHANGED <<nor_idx, norimage>>
                  ELSE /\ norimage' = NorImageAdd(norimage, comp)
                       /\ nor_idx' = nor_idx + 1
                       /\ UNCHANGED <<nor_pc, nor_ret>>
    /\ UNCHANGED <<driver, replies, bootobj, baseband, bundle, FlashVersion1,
                   nor_entry, flash_version_1, firmware_files, nor_seen, nor_read,
                   nor_dict, nor_sent>>

\* After the iteration: norimage becomes NorImageData, and RestoreSEP is added
\* when the build identity has it.
NorRestoreSEP ==
    /\ nor_pc = "iterate"
    /\ nor_idx > Len(firmware_files)
    /\ \E has_component \in BOOLEAN, extract_ok \in BOOLEAN, personalize_ok \in BOOLEAN :
        LET with_images == plist_dict_set_item(nor_dict, "NorImageData", norimage)
        IN  IF ~has_component
            THEN /\ nor_dict' = with_images
                 /\ nor_pc' = "sep"
                 /\ UNCHANGED nor_ret
            ELSE IF ~extract_ok \/ ~personalize_ok
            THEN /\ nor_dict' = with_images
                 /\ NorReturn(-1)
            ELSE /\ nor_dict' = plist_dict_set_item(with_images, "RestoreSEPImageData",
                                                    personalize_component(RestoreSEP))
                 /\ nor_pc' = "sep"
                 /\ UNCHANGED nor_ret
    /\ UNCHANGED <<driver, replies, bootobj, baseband, bundle, FlashVersion1,
                   nor_entry, flash_version_1, firmware_files, nor_seen, nor_read,
                   nor_idx, norimage, nor_sent>>

\* SEP is added when the build identity has it.
NorSEP ==
    /\ nor_pc = "sep"
    /\ \E has_component \in BOOLEAN, extract_ok \in BOOLEAN, personalize_ok \in BOOLEAN :
        IF ~has_component
        THEN /\ nor_pc' = "send"
             /\ UNCHANGED <<nor_dict, nor_ret>>
        ELSE IF ~extract_ok \/ ~personalize_ok
        THEN /\ NorReturn(-1)
             /\ UNCHANGED nor_dict
        ELSE /\ nor_dict' = plist_dict_set_item(nor_dict, "SEPImageData",
                                                personalize_component(<<"S", "E", "P">>))
             /\ nor_pc' = "send"
             /\ UNCHANGED nor_ret
    /\ UNCHANGED <<driver, replies, bootobj, baseband, bundle, FlashVersion1,
                   nor_entry, flash_version_1, firmware_files, nor_seen, nor_read,
                   nor_idx, norimage, nor_sent>>

\* The reply is sent.
NorSend ==
    /\ nor_pc = "send"
    /\ \E restore_error_ok \in BOOLEAN :
        IF restore_error_ok
        THEN /\ nor_sent' = Append(nor_sent, nor_dict)
             /\ NorReturn(0)
        ELSE /\ NorReturn(-1)
             /\ UNCHANGED nor_sent
    /\ UNCHANGED <<driver, replies, bootobj, baseband, bundle, FlashVersion1,
                   nor_entry, flash_version_1, firmware_files, nor_seen, nor_read,
                   nor_idx, norimage, nor_dict>>

\* ------------------------------------------------- BasebandData data request
\* restore_send_baseband_data and restore_sign_bbfw.  File names and dictionary
\* keys are strings of characters.

\* Largest number of entries the baseband firmware archive has.
MaxBbfwFiles == 3

\* Largest number of items the BasebandFirmware dictionary of a response has.
MaxBlobs == 2

\* The element to file name table.
bbfw_fn_elem ==
    << [element |-> <<"R", "a", "m", "P", "S", "I">>, fn |-> <<"p", "s", "i", "_", "r", "a", "m", ".", "f", "l", "s">>],
       [element |-> <<"F", "l", "a", "s", "h", "P", "S", "I">>, fn |-> <<"p", "s", "i", "_", "f", "l", "a", "s", "h", ".", "f", "l", "s">>],
       [element |-> <<"e", "D", "B", "L">>, fn |-> <<"d", "b", "l", ".", "m", "b", "n">>],
       [element |-> <<"R", "e", "s", "t", "o", "r", "e", "D", "B", "L">>, fn |-> <<"r", "e", "s", "t", "o", "r", "e", "d", "b", "l", ".", "m", "b", "n">>],
       [element |-> <<"D", "B", "L">>, fn |-> <<"d", "b", "l", ".", "m", "b", "n">>],
       [element |-> <<"E", "N", "A", "N", "D", "P", "R", "G">>, fn |-> <<"E", "N", "P", "R", "G", ".", "m", "b", "n">>],
       [element |-> <<"R", "e", "s", "t", "o", "r", "e", "S", "B", "L", "1">>, fn |-> <<"r", "e", "s", "t", "o", "r", "e", "s", "b", "l", "1", ".", "m", "b", "n">>],
       [element |-> <<"S", "B", "L", "1">>, fn |-> <<"s", "b", "l", "1", ".", "m", "b", "n">>],
       [element |-> <<"R", "e", "s", "t", "o", "r", "e", "P", "S", "I">>, fn |-> <<"r", "e", "s", "t", "o", "r", "e", "p", "s", "i", ".", "b", "i", "n">>],
       [element |-> <<"P", "S", "I">>, fn |-> <<"p", "s", "i", "_", "r", "a", "m", ".", "b", "i", "n">>],
       [element |-> <<"R", "e", "s", "t", "o", "r", "e", "P", "S", "I", "2">>, fn |-> <<"r", "e", "s", "t", "o", "r", "e", "p", "s", "i", "2", ".", "b", "i", "n">>],
       [element |-> <<"P", "S", "I", "2">>, fn |-> <<"p", "s", "i", "_", "r", "a", "m", "2", ".", "b", "i", "n">>],
       [element |-> <<"M", "i", "s", "c">>, fn |-> <<"m", "u", "l", "t", "i", "_", "i", "m", "a", "g", "e", ".", "m", "b", "n">>] >>

\* The file name of an element: <<fn>>, or NoField for NULL.
restore_get_bbfw_fn_for_element(elem) ==
    LET is == {i \in 1..Len(bbfw_fn_elem) : bbfw_fn_elem[i].element = elem}
    IN  IF is = {} THEN NoField
        ELSE <<bbfw_fn_elem[CHOOSE i \in is : \A j \in is : i <= j].fn>>

\* strchr(s, c): the position of the first c in s, 0 for NULL.
strchr(s, c) ==
    LET ps == {p \in 1..Len(s) : s[p] = c}
    IN  IF ps = {} THEN 0 ELSE CHOOSE p \in ps : \A q \in ps : p <= q

\* strrchr(s, c): the position of the last c in s, 0 for NULL.
strrchr(s, c) ==
    LET ps == {p \in 1..Len(s) : s[p] = c}
    IN  IF ps = {} THEN 0 ELSE CHOOSE p \in ps : \A q \in ps : p >= q

\* strcmp(key + (strlen(key) - 5), "-Blob") == 0; the keys are 5 characters or
\* longer.
EndsInBlob(key) == SubSeq(key, Len(key) - 4, Len(key)) = <<"-", "B", "l", "o", "b">>

\* The key cut at its first '-'.
ElementOfKey(key) == SubSeq(key, 1, strchr(key, "-") - 1)

\* ext of a file name: <<the string from the last '.'>>, or NoField for NULL.
ExtOf(fn) == IF strrchr(fn, ".") = 0 THEN NoField ELSE <<SubSeq(fn, strrchr(fn, "."), Len(fn))>>

\* The extensions kept when a nonce is given.
KeptExtensions == {<<".", "f", "l", "s">>, <<".", "m", "b", "n">>, <<".", "e", "l", "f">>, <<".", "b", "i", "n">>}

\* The file names a baseband firmware archive is made of, in archive order.
BbfwFileNames ==
    << <<"d", "b", "l", ".", "m", "b", "n">>, <<"E", "N", "P", "R", "G", ".", "m", "b", "n">>, <<"R", "E", "A", "D", "M", "E", ".", "t", "x", "t">>, <<"p", "s", "i", "_", "r", "a", "m", ".", "f", "l", "s">>,
       <<"p", "s", "i", "_", "f", "l", "a", "s", "h", ".", "f", "l", "s">>, <<"e", "b", "l", ".", "f", "l", "s">>, <<"I", "n", "f", "o">> >>

\* The items a BasebandFirmware dictionary is made of.
BasebandFirmwareItems ==
    { [key |-> <<"D", "B", "L", "-", "B", "l", "o", "b">>, type |-> "PLIST_DATA"],
      [key |-> <<"E", "N", "A", "N", "D", "P", "R", "G", "-", "B", "l", "o", "b">>, type |-> "PLIST_DATA"],
      [key |-> <<"R", "a", "m", "P", "S", "I", "-", "B", "l", "o", "b">>, type |-> "PLIST_DATA"],
      [key |-> <<"F", "l", "a", "s", "h", "P", "S", "I", "-", "B", "l", "o", "b">>, type |-> "PLIST_DATA"],
      [key |-> <<"F", "o", "o", "-", "B", "l", "o", "b">>, type |-> "PLIST_DATA"],
      [key |-> <<"D", "B", "L", "-", "P", "a", "r", "t", "i", "a", "l", "D", "i", "g", "e", "s", "t">>, type |-> "PLIST_DATA"],
      [key |-> <<"M", "i", "s", "c", "-", "B", "l", "o", "b">>, type |-> "PLIST_STRING"] }

\* The content of an archive entry: the file it was made from, the signature
\* blob installed in it and the ticket inserted in it.
FileContent(name) == [of |-> name, sig |-> NoField, ticket |-> NoField]

\* A variant that leaves the file as it was.
update_sig_blob_Nothing(content, parser, blob) == content

\* fls_update_sig_blob and mbn_update_sig_blob: the blob is installed by the
\* parser that read the file.
update_sig_blob(content, parser, blob) ==
    [content EXCEPT !.sig = <<[blob |-> blob, parser |-> parser]>>]

fls_insert_ticket(content, ticket) == [content EXCEPT !.ticket = <<ticket>>]

\* The archive with the entries of BbfwFileNames whose positions are in ps.
RECURSIVE ArchiveFrom(_, _)
ArchiveFrom(ps, p) ==
    IF p > Len(BbfwFileNames) THEN <<>>
    ELSE (IF p \in ps
          THEN <<[name |-> BbfwFileNames[p], content |-> FileContent(BbfwFileNames[p])]>>
          ELSE <<>>) \o ArchiveFrom(ps, p + 1)

\* The sequences of at most n different elements of S.
RECURSIVE DistinctSeqsOf(_, _)
DistinctSeqsOf(S, n) ==
    IF n = 0 THEN {<<>>}
    ELSE LET shorter == DistinctSeqsOf(S, n - 1)
             longest == {r \in shorter : Len(r) = n - 1}
         IN  shorter \cup
             UNION {{Append(q, x) : x \in S \ {q[i] : i \in 1..Len(q)}} : q \in longest}

\* A baseband ticket response: the request that it answers (0 for the copy of
\* the AP ticket response made at session start), the BbNonce of that request,
\* and its BBTicket and BasebandFirmware nodes.
TssResponse(id, nonce, ticket, firmware) ==
    [id |-> id, BbNonce |-> nonce,
     BBTicket |-> IF ticket THEN <<[bbticket |-> id]>> ELSE NoField,
     BasebandFirmware |-> firmware]

NoResponse == [id |-> -1, BbNonce |-> NoField, BBTicket |-> NoField, BasebandFirmware |-> NoField]

\* zip_open: the entries of the file, none of them changed.
zip_open(file) == [i \in 1..Len(file) |-> [name |-> file[i].name, content |-> file[i].content,
                                           deleted |-> FALSE]]

\* zip_name_locate: the index of the entry of that name, 0 when there is none
\* (indices count from 1 here).
zip_name_locate(a, fn) ==
    LET is == {i \in 1..Len(a) : ~a[i].deleted /\ a[i].name = fn}
    IN  IF is = {} THEN 0 ELSE CHOOSE i \in is : \A j \in is : i <= j

zip_replace(a, i, content) == [a EXCEPT ![i].content = content]

zip_delete(a, i) == [a EXCEPT ![i].deleted = TRUE]

zip_add(a, fn, content) == Append(a, [name |-> fn, content |-> content, deleted |-> FALSE])

\* What a successful zip_close writes: the entries that are not deleted.
RECURSIVE Written(_)
Written(a) ==
    IF a = <<>> THEN <<>>
    ELSE (IF Head(a).deleted THEN <<>>
          ELSE <<[name |-> Head(a).name, content |-> Head(a).content]>>) \o Written(Tail(a))

\* goto leave, and the early returns: the archive is closed with its changes
\* undone, or was never opened.  A za that is not open is <<>>.
SignLeave ==
    /\ za' = <<>>
    /\ sign_res' = -1
    /\ bb_pc' = "sign_returned"

\* The nodes of the response are looked up and the archive is opened.
SignOpen ==
    /\ bb_pc = "sign"
    /\ \E zip_open_ok \in BOOLEAN, iter_ok \in BOOLEAN :
        IF ~Has(sign_bbtss.BBTicket) \/ ~Has(sign_bbtss.BasebandFirmware)
           \/ ~zip_open_ok \/ ~iter_ok
        THEN /\ SignLeave
             /\ UNCHANGED sign_k
        ELSE /\ za' = zip_open(bbfw_file)
             /\ sign_k' = 1
             /\ bb_pc' = "sign_items"
             /\ UNCHANGED sign_res
    /\ is_fls' = 0
    /\ signed_file_idxs' = <<>>
    /\ UNCHANGED <<driver, replies, bootobj, nor, bundle, bbtss, bb_nonce, response, tss_requests, bb_nrequests,
                 bb_sent, bb_ret, bbfw_ipsw, sign_bbtss, bbfw_file>>

\* A variant that records every signed entry.
KeepsSigned_All(fls, nonce, element) == TRUE

\* Whether the index of a signed file is recorded in signed_file_idxs.
KeepsSigned(fls, nonce, element) ==
    IF fls # 0 /\ ~Has(nonce) THEN element = <<"R", "a", "m", "P", "S", "I">> ELSE TRUE

\* One item of the BasebandFirmware dictionary.
SignItem ==
    /\ bb_pc = "sign_items"
    /\ sign_k <= Len(sign_bbtss.BasebandFirmware[1])
    /\ LET key == sign_bbtss.BasebandFirmware[1][sign_k].key
           node == sign_bbtss.BasebandFirmware[1][sign_k]
       IN  IF ~(EndsInBlob(key) /\ node.type = "PLIST_DATA")
           THEN /\ sign_k' = sign_k + 1
                /\ UNCHANGED <<za, is_fls, signed_file_idxs, sign_res, bb_pc>>
           ELSE LET element == ElementOfKey(key)
                    signfn == restore_get_bbfw_fn_for_element(element)
                    fls == IF Has(signfn) /\ ExtOf(signfn[1]) = <<<<".", "f", "l", "s">>>> THEN 1 ELSE is_fls
                    zindex == IF Has(signfn) THEN zip_name_locate(za, signfn[1]) ELSE 0
                    blob == [key |-> key, of |-> sign_bbtss.id]
                IN  \E read_ok \in BOOLEAN, parse_ok \in BOOLEAN,
                       update_ok \in BOOLEAN, replace_ok \in BOOLEAN :
                      IF ~Has(signfn) \/ zindex = 0 \/ ~read_ok \/ ~parse_ok
                         \/ ~update_ok \/ ~replace_ok
                      THEN /\ SignLeave
                           /\ is_fls' = fls
                           /\ UNCHANGED <<sign_k, signed_file_idxs>>
                      ELSE /\ za' = zip_replace(za, zindex,
                                       update_sig_blob(za[zindex].content,
                                                       IF fls # 0 THEN "fls" ELSE "mbn", blob))
                           /\ is_fls' = fls
                           /\ signed_file_idxs' =
                                 IF KeepsSigned(fls, bb_nonce, element)
                                 THEN Append(signed_file_idxs, zindex)
                                 ELSE signed_file_idxs
                           /\ sign_k' = sign_k + 1
                           /\ UNCHANGED <<sign_res, bb_pc>>
    /\ UNCHANGED <<driver, replies, bootobj, nor, bundle, bbtss, bb_nonce, response, tss_requests, bb_nrequests,
                 bb_sent, bb_ret, bbfw_ipsw, sign_bbtss, bbfw_file>>

\* A variant that keeps every entry.
Keeps_Everything(a, idxs, nonce, i) == TRUE

\* Whether the entry at index i stays in the archive.
Keeps(a, idxs, nonce, i) ==
    \/ \E j \in 1..Len(idxs) : idxs[j] = i
    \/ /\ Has(nonce)
       /\ Has(ExtOf(a[i].name))
       /\ ExtOf(a[i].name)[1] \in KeptExtensions

\* After the items: everything but the required files is removed.
SignPrune ==
    /\ bb_pc = "sign_items"
    /\ sign_k > Len(sign_bbtss.BasebandFirmware[1])
    /\ za' = [i \in 1..Len(za) |->
                 IF Keeps(za, signed_file_idxs, bb_nonce, i) THEN za[i]
                 ELSE zip_delete(za, i)[i]]
    /\ bb_pc' = "sign_ticket"
    /\ UNCHANGED <<driver, replies, bootobj, nor, bundle, bbtss, bb_nonce, response, tss_requests, bb_nrequests,
                 bb_sent, bb_ret, bbfw_ipsw, sign_bbtss, bbfw_file, sign_k, is_fls,
                   signed_file_idxs, sign_res>>

\* With a nonce the BBTicket is put into the archive: into ebl.fls for FLS
\* files, as bbticket.der otherwise.
SignTicket ==
    /\ bb_pc = "sign_ticket"
    /\ IF ~Has(bb_nonce)
       THEN /\ bb_pc' = "sign_close"
            /\ UNCHANGED <<za, sign_res>>
       ELSE IF is_fls # 0
       THEN LET zindex == zip_name_locate(za, <<"e", "b", "l", ".", "f", "l", "s">>)
            IN  \E read_ok \in BOOLEAN, parse_ok \in BOOLEAN,
                   insert_ok \in BOOLEAN, replace_ok \in BOOLEAN :
                  IF zindex = 0 \/ ~read_ok \/ ~parse_ok \/ ~insert_ok \/ ~replace_ok
                  THEN SignLeave
                  ELSE /\ za' = zip_replace(za, zindex,
                                   fls_insert_ticket(za[zindex].content,
                                                     sign_bbtss.BBTicket[1]))
                       /\ bb_pc' = "sign_close"
                       /\ UNCHANGED sign_res
       ELSE \E source_ok \in BOOLEAN, add_ok \in BOOLEAN :
              IF ~source_ok \/ ~add_ok
              THEN SignLeave
              ELSE /\ za' = zip_add(za, <<"b", "b", "t", "i", "c", "k", "e", "t", ".", "d", "e", "r">>, sign_bbtss.BBTicket[1])
                   /\ bb_pc' = "sign_close"
                   /\ UNCHANGED sign_res
    /\ UNCHANGED <<driver, replies, bootobj, nor, bundle, bbtss, bb_nonce, response, tss_requests, bb_nrequests,
                 bb_sent, bb_ret, bbfw_ipsw, sign_bbtss, bbfw_file, sign_k, is_fls,
                   signed_file_idxs>>

\* zip_close writes the modified archive out, or fails and writes nothing.
SignClose ==
    /\ bb_pc = "sign_close"
    /\ \E zip_close_ok \in BOOLEAN :
        IF zip_close_ok
        THEN /\ bbfw_file' = Written(za)
             /\ sign_res' = 0
        ELSE /\ bbfw_file' = bbfw_file
             /\ sign_res' = -1
    /\ za' = <<>>
    /\ bb_pc' = "sign_returned"
    /\ UNCHANGED <<driver, replies, bootobj, nor, bundle, bbtss, bb_nonce, response, tss_requests, bb_nrequests,
                 bb_sent, bb_ret, bbfw_ipsw, sign_bbtss, sign_k, is_fls, signed_file_idxs>>

\* Largest number of BasebandData requests one session handles.
MaxBasebandRequests == 3

\* The archives and BasebandFirmware dictionaries of the sessions.
SessionArchives ==
    {ArchiveFrom({1, 2, 3}, 1), ArchiveFrom({4, 6}, 1)}

SessionFirmwares ==
    { <<[key |-> <<"D", "B", "L", "-", "B", "l", "o", "b">>, type |-> "PLIST_DATA"],
        [key |-> <<"E", "N", "A", "N", "D", "P", "R", "G", "-", "B", "l", "o", "b">>, type |-> "PLIST_DATA"]>>,
      <<[key |-> <<"R", "a", "m", "P", "S", "I", "-", "B", "l", "o", "b">>, type |-> "PLIST_DATA"]>> }

\* Nothing sent, signed or returned yet.
BasebandStart ==
    /\ tss_requests = <<>>
    /\ bb_nrequests = 0
    /\ bb_sent = <<>>
    /\ bb_ret = <<>>
    /\ za = <<>>
    /\ sign_k = 0
    /\ is_fls = 0
    /\ signed_file_idxs = <<>>
    /\ sign_res = 0

\* No request is being handled.
BasebandBetweenRequests ==
    /\ bb_nonce = NoField
    /\ response = NoResponse
    /\ bbfw_file = <<>>
    /\ sign_bbtss = NoResponse

BasebandIdle ==
    /\ bb_pc = "none"
    /\ BasebandStart
    /\ BasebandBetweenRequests
    /\ bbtss = NoResponse
    /\ bbfw_ipsw = <<>>

\* return from restore_send_baseband_data
BbReturn(r) ==
    /\ bb_ret' = Append(bb_ret, r)
    /\ bb_pc' = "idle"

\* A BasebandData request arrives and its Arguments are read.
BbArguments ==
    /\ bb_pc = "idle"
    /\ bb_nrequests < MaxBasebandRequests
    /\ \E Nonce \in {NoField} \cup {<<"N1">>, <<"N2">>} : bb_nonce' = Nonce
    /\ bb_nrequests' = bb_nrequests + 1
    /\ response' = NoResponse
    /\ bb_pc' = "tss"
    /\ UNCHANGED <<driver, replies, bootobj, nor, bundle, za, sign_k, is_fls, signed_file_idxs, sign_res,
                 bbfw_ipsw, bbtss, tss_requests, bb_sent, bb_ret,
                   bbfw_file, sign_bbtss>>

\* if ((bb_nonce == NULL) || (client->restore->bbtss == NULL))
NeedsTssRequest(nonce, cached) == ~Has(nonce) \/ cached = NoResponse

\* The baseband ticket request is made and sent, when one is needed.
BbTssRequest ==
    /\ bb_pc = "tss"
    /\ IF NeedsTssRequest(bb_nonce, bbtss)
       THEN \E request_ok \in BOOLEAN, response_ok \in BOOLEAN, ticket \in BOOLEAN,
               firmware \in SessionFirmwares :
              IF ~request_ok
              THEN /\ BbReturn(-1)
                   /\ UNCHANGED <<tss_requests, response>>
              ELSE /\ tss_requests' = Append(tss_requests,
                                        [BbNonce |-> bb_nonce, cached |-> bbtss # NoResponse])
                   /\ IF ~response_ok
                      THEN /\ BbReturn(-1)
                           /\ UNCHANGED response
                      ELSE /\ response' = TssResponse(Len(tss_requests) + 1, bb_nonce,
                                                      ticket, <<firmware>>)
                           /\ bb_pc' = "extract"
                           /\ UNCHANGED bb_ret
       ELSE /\ bb_pc' = "extract"
            /\ UNCHANGED <<tss_requests, response, bb_ret>>
    /\ UNCHANGED <<driver, replies, bootobj, nor, bundle, za, sign_k, is_fls, signed_file_idxs, sign_res,
                 bbfw_ipsw, bbtss, bb_nonce, bb_nrequests, bb_sent,
                   bbfw_file, sign_bbtss>>

\* A variant that always signs with the response of this request.
SignArgument_Response(cached, resp) == resp

\* (client->restore->bbtss) ? client->restore->bbtss : response
SignArgument(cached, resp) == IF cached # NoResponse THEN cached ELSE resp

\* The archive is extracted to the temporary file, the response is cached when
\* the request has a nonce and nothing is cached, and restore_sign_bbfw is called.
BbExtract ==
    /\ bb_pc = "extract"
    /\ \E path_ok \in BOOLEAN, extract_ok \in BOOLEAN :
        IF ~path_ok \/ ~extract_ok
        THEN /\ BbReturn(-1)
             /\ response' = NoResponse
             /\ UNCHANGED <<bbtss, bbfw_file, sign_bbtss>>
        ELSE /\ bbfw_file' = bbfw_ipsw
             /\ IF Has(bb_nonce) /\ bbtss = NoResponse
                THEN /\ bbtss' = response
                     /\ response' = NoResponse
                ELSE UNCHANGED <<bbtss, response>>
             /\ sign_bbtss' = SignArgument(bbtss', response')
             /\ bb_pc' = "sign"
             /\ UNCHANGED bb_ret
    /\ UNCHANGED <<driver, replies, bootobj, nor, bundle, za, sign_k, is_fls, signed_file_idxs, sign_res,
                 bbfw_ipsw, bb_nonce, tss_requests, bb_nrequests,
                   bb_sent>>

\* A variant that goes on whatever restore_sign_bbfw returned.
SignFailed_Never(res) == FALSE

\* if (res != 0) goto leave;
SignFailed(res) == res # 0

\* After restore_sign_bbfw: the signed archive is read and sent; then, and on
\* every failure, the temporary file is removed and the response is dropped.
BbSend ==
    /\ bb_pc = "sign_returned"
    /\ \E read_ok \in BOOLEAN, send_ok \in BOOLEAN :
        IF SignFailed(sign_res)
        THEN /\ BbReturn(sign_res)
             /\ UNCHANGED bb_sent
        ELSE IF ~read_ok \/ ~send_ok
        THEN /\ BbReturn(-1)
             /\ UNCHANGED bb_sent
        ELSE /\ bb_sent' = Append(bb_sent, [BasebandData |-> bbfw_file])
             /\ BbReturn(0)
    /\ bbfw_file' = <<>>
    /\ response' = NoResponse
    /\ UNCHANGED <<driver, replies, bootobj, nor, bundle, za, sign_k, is_fls, signed_file_idxs, sign_res,
                 bbfw_ipsw, bbtss, bb_nonce, tss_requests,
                   bb_nrequests, sign_bbtss>>

\* ------------------------------------- BootabilityBundle and updater output
\* restore_send_bootability_bundle_data with restore_bootability_send_one and
\* cpio_send_file, and restore_handle_baseband_updater_output_data.  Both open
\* a connection to a data port of the device in the same way.

\* Largest number of entries the listing of the firmware archive has.
MaxBundleEntries == 2

\* Largest number of successful reads from the baseband updater.
MaxUpdaterReads == 2

\* int attempts = 10;
CONNECT_ATTEMPTS == 10

BootabilityPrefix == <<"B", "o", "o", "t", "a", "b", "i", "l", "i", "t", "y", "B", "u", "n", "d", "l", "e", "/", "R", "e", "s", "t", "o", "r", "e", "/", "B", "o", "o", "t", "a", "b", "i", "l", "i", "t", "y", "/">>

TrustcacheName == <<"B", "o", "o", "t", "a", "b", "i", "l", "i", "t", "y", "B", "u", "n", "d", "l", "e", "/", "R", "e", "s", "t", "o", "r", "e", "/", "F", "i", "r", "m", "w", "a", "r", "e", "/", "B", "o", "o", "t", "a", "b", "i", "l", "i", "t", "y", ".", "d", "m", "g", ".", "t", "r", "u", "s", "t", "c", "a", "c", "h", "e">>

\* The entries a listing of the firmware archive is made of: name, file type
\* of st_mode, st_size and owner.
ArchiveEntries ==
    { [name |-> BootabilityPrefix \o <<"b", "o", "o", "t", ".", "e", "f", "i">>, type |-> "S_IFREG", st_size |-> 3,
       st_uid |-> 501, st_nlink |-> 1],
      [name |-> TrustcacheName, type |-> "S_IFREG", st_size |-> 2,
       st_uid |-> 0, st_nlink |-> 1],
      [name |-> BootabilityPrefix, type |-> "S_IFDIR", st_size |-> 4,
       st_uid |-> 501, st_nlink |-> 2],
      [name |-> BootabilityPrefix \o <<"c", "u", "r">>, type |-> "S_IFLNK", st_size |-> 0,
       st_uid |-> 0, st_nlink |-> 1],
      [name |-> <<"F", "i", "r", "m", "w", "a", "r", "e", "/", "a", "l", "l", "_", "f", "l", "a", "s", "h">>, type |-> "S_IFREG", st_size |-> 1,
       st_uid |-> 0, st_nlink |-> 1] }

\* The sequences of at most n elements of S.
RECURSIVE SeqsUpTo(_, _)
SeqsUpTo(S, n) ==
    IF n = 0 THEN {<<>>}
    ELSE LET shorter == SeqsUpTo(S, n - 1)
         IN  shorter \cup {Append(q, x) : q \in {r \in shorter : Len(r) = n - 1}, x \in S}

RECURSIVE OctalDigits(_)
OctalDigits(v) ==
    LET digit == <<"0", "1", "2", "3", "4", "5", "6", "7">>
    IN  IF v < 8 THEN <<digit[v + 1]>>
        ELSE OctalDigits(v \div 8) \o <<digit[(v % 8) + 1]>>

\* octal(p, width, v): the first width characters of v printed in octal,
\* zero-padded to width.
octal(width, v) ==
    LET digits == OctalDigits(v)
        padded == [i \in 1..(width - Len(digits)) |-> "0"] \o digits
    IN  SubSeq(padded, 1, width)

\* A header whose c_filesize is st_size also when there is no data
cpio_odc_header_AlwaysSize(name, st, data) ==
    [c_magic |-> <<"0", "7", "0", "7", "0", "7">>,
     c_mode |-> st.type,
     c_uid |-> octal(6, st.st_uid),
     c_gid |-> octal(6, st.st_gid),
     c_nlink |-> octal(6, st.st_nlink),
     c_namesize |-> octal(6, Len(name) + 1),
     c_filesize |-> octal(11, st.st_size)]

\* The header cpio_send_file makes (the fields of the device, inode and time
\* are left out).
cpio_odc_header(name, st, data) ==
    [c_magic |-> <<"0", "7", "0", "7", "0", "7">>,
     c_mode |-> st.type,
     c_uid |-> octal(6, st.st_uid),
     c_gid |-> octal(6, st.st_gid),
     c_nlink |-> octal(6, st.st_nlink),
     c_namesize |-> octal(6, Len(name) + 1),
     c_filesize |-> IF data THEN octal(11, st.st_size) ELSE octal(11, 0)]

\* What cpio_send_file sends for one record, in order; data says whether the
\* data pointer is not NULL.
cpio_send_file(name, st, data) ==
    << [part |-> "header", name |-> name, hdr |-> cpio_odc_header(name, st, data), len |-> 76],
       [part |-> "name", name |-> name, hdr |-> cpio_odc_header(name, st, data),
        len |-> Len(name) + 1] >>
    \o (IF st.st_size # 0 /\ data
        THEN <<[part |-> "data", name |-> name, hdr |-> cpio_odc_header(name, st, data),
                len |-> st.st_size]>>
        ELSE <<>>)

\* restore_bootability_send_one without the case of the trustcache
Subpath_NoTrustcache(name) ==
    IF ~strncmp_equal(name, BootabilityPrefix, Len(BootabilityPrefix)) THEN NoField
    ELSE <<SubSeq(name, Len(BootabilityPrefix) + 1, Len(name))>>

\* The name restore_bootability_send_one sends an entry under: <<subpath>>, or
\* NoField for an entry that is not sent.
Subpath(name) ==
    IF name = TrustcacheName THEN <<<<"B", "o", "o", "t", "a", "b", "i", "l", "i", "t", "y", ".", "t", "r", "u", "s", "t", "c", "a", "c", "h", "e">>>>
    ELSE IF ~strncmp_equal(name, BootabilityPrefix, Len(BootabilityPrefix)) THEN NoField
    ELSE <<SubSeq(name, Len(BootabilityPrefix) + 1, Len(name))>>

BundleIdle ==
    /\ bu_handler = "none"
    /\ bu_pc = "idle"
    /\ attempts = 0
    /\ device_error = "IDEVICE_E_SUCCESS"
    /\ connection = "NULL"
    /\ bu_nconnect = 0
    /\ bu_listing = <<>>
    /\ bu_idx = 0
    /\ bu_stream = <<>>
    /\ bu_send_failed = FALSE
    /\ bu_file = NoField
    /\ bu_reads = 0
    /\ bu_ret = 0

BuReturn(r) ==
    /\ bu_pc' = "returned"
    /\ bu_ret' = r

\* while (--attempts > 0), where n is the value before the decrement
TriesAgain(n) == n - 1 > 0

\* One pass through the connection loop: the test, and idevice_connect when
\* the test lets the body run.
BuConnect ==
    /\ bu_pc = "connect"
    /\ attempts' = attempts - 1
    /\ IF TriesAgain(attempts)
       THEN /\ bu_nconnect' = bu_nconnect + 1
            /\ \E ok \in BOOLEAN :
                 IF ok
                 THEN /\ device_error' = "IDEVICE_E_SUCCESS"
                      /\ connection' = "open"
                      /\ bu_pc' = "connected"
                 ELSE /\ device_error' = "IDEVICE_E_UNKNOWN_ERROR"
                      /\ UNCHANGED <<connection, bu_pc>>
       ELSE /\ bu_pc' = "connected"
            /\ UNCHANGED <<bu_nconnect, device_error, connection>>
    /\ UNCHANGED <<driver, replies, bootobj, nor, baseband, bu_send_failed, bu_handler, bu_listing, bu_idx, bu_stream, bu_file,
                   bu_reads, bu_ret>>

\* if (device_error != IDEVICE_E_SUCCESS) return -1;
BuGiveUp ==
    /\ bu_pc = "connected"
    /\ device_error # "IDEVICE_E_SUCCESS"
    /\ BuReturn(-1)
    /\ UNCHANGED <<driver, replies, bootobj, nor, baseband, bu_send_failed, bu_handler, attempts, device_error, connection,
                   bu_nconnect, bu_listing, bu_idx, bu_stream, bu_file, bu_reads>>

\* ipsw_list_contents calls restore_bootability_send_one for one entry; a
\* negative result ends the listing and the handler.
BuSendOne ==
    /\ bu_pc = "connected"
    /\ bu_handler = "BootabilityBundle"
    /\ device_error = "IDEVICE_E_SUCCESS"
    /\ bu_idx <= Len(bu_listing)
    /\ LET entry == bu_listing[bu_idx]
           subpath == Subpath(entry.name)
           extracts == entry.type \in {"S_IFLNK", "S_IFREG"} /\ entry.st_size # 0
           st == [type |-> entry.type, st_size |-> entry.st_size, st_uid |-> 0, st_gid |-> 0,
                  st_nlink |-> entry.st_nlink]
           parts == cpio_send_file(subpath[1], st, extracts)
       IN  IF ~Has(subpath)
           THEN /\ bu_idx' = bu_idx + 1
                /\ UNCHANGED <<bu_stream, bu_send_failed, bu_pc, bu_ret>>
           ELSE \E size_ok \in BOOLEAN, nsent \in 0..Len(parts) :
                  IF extracts /\ ~size_ok
                  THEN /\ BuReturn(-1)
                       /\ UNCHANGED <<bu_stream, bu_send_failed, bu_idx>>
                  ELSE /\ bu_stream' = bu_stream \o SubSeq(parts, 1, nsent)
                       /\ bu_send_failed' = (bu_send_failed \/ nsent < Len(parts))
                       /\ IF nsent < Len(parts)
                          THEN /\ BuReturn(-1)
                               /\ UNCHANGED bu_idx
                          ELSE /\ bu_idx' = bu_idx + 1
                               /\ UNCHANGED <<bu_pc, bu_ret>>
    /\ UNCHANGED <<driver, replies, bootobj, nor, baseband, bu_handler, attempts, device_error, connection,
                   bu_nconnect, bu_listing, bu_file, bu_reads>>

\* After the listing: the trailer is sent, its result ignored, and the
\* connection is closed.
BuTrailer ==
    /\ bu_pc = "connected"
    /\ bu_handler = "BootabilityBundle"
    /\ device_error = "IDEVICE_E_SUCCESS"
    /\ bu_idx > Len(bu_listing)
    /\ LET \* struct stat st = {.st_nlink = 1};
           st == [type |-> "0", st_size |-> 0, st_uid |-> 0, st_gid |-> 0, st_nlink |-> 1]
           parts == cpio_send_file(<<"T", "R", "A", "I", "L", "E", "R", "!", "!", "!">>, st, FALSE)
       IN  \E nsent \in 0..Len(parts) :
             /\ bu_stream' = bu_stream \o SubSeq(parts, 1, nsent)
             /\ bu_send_failed' = (bu_send_failed \/ nsent < Len(parts))
    /\ connection' = "disconnected"
    /\ BuReturn(0)
    /\ UNCHANGED <<driver, replies, bootobj, nor, baseband, bu_handler, attempts, device_error, bu_nconnect,
                   bu_listing, bu_idx, bu_file, bu_reads>>

\* The output file is named and opened and the buffer is allocated.
BuOpenOutput ==
    /\ bu_pc = "connected"
    /\ bu_handler = "BasebandUpdaterOutputData"
    /\ device_error = "IDEVICE_E_SUCCESS"
    /\ \E alloc_ok \in BOOLEAN, fopen_ok \in BOOLEAN :
        IF ~alloc_ok
        THEN /\ connection' = "disconnected"
             /\ BuReturn(-1)
             /\ UNCHANGED bu_file
        ELSE /\ bu_file' = IF fopen_ok THEN <<0>> ELSE NoField
             /\ bu_pc' = "receive"
             /\ UNCHANGED <<connection, bu_ret>>
    /\ UNCHANGED <<driver, replies, bootobj, nor, baseband, bu_send_failed, bu_handler, attempts, device_error, bu_nconnect,
                   bu_listing, bu_idx, bu_stream, bu_reads>>

\* One idevice_connection_receive: what is read is written to the file if
\* there is one; the first failure ends the handler.
BuReceive ==
    /\ bu_pc = "receive"
    /\ \E ok \in BOOLEAN :
        IF ok /\ bu_reads < MaxUpdaterReads
        THEN /\ bu_reads' = bu_reads + 1
             /\ bu_file' = IF Has(bu_file) THEN <<bu_file[1] + 1>> ELSE bu_file
             /\ UNCHANGED <<connection, bu_pc, bu_ret>>
        ELSE /\ connection' = "disconnected"
             /\ BuReturn(0)
             /\ UNCHANGED <<bu_reads, bu_file>>
    /\ UNCHANGED <<driver, replies, bootobj, nor, baseband, bu_send_failed, bu_handler, attempts, device_error, bu_nconnect,
                   bu_listing, bu_idx, bu_stream>>

\* ------------------------------------------------------------ ProgressMsg
\* restore_handle_progress_msg with restore_progress_string.

\* Largest number of ProgressMsg messages of a session.
MaxProgressMsgs == 2

\* restore_progress_string: the cases of its switch
ProgressStrings ==
    <<
       [op |-> 11, string |-> "Creating partition map"],
       [op |-> 12, string |-> "Creating filesystem"],
       [op |-> 13, string |-> "Restoring image"],
       [op |-> 14, string |-> "Verifying restore"],
       [op |-> 15, string |-> "Checking filesystems"],
       [op |-> 16, string |-> "Mounting filesystems"],
       [op |-> 17, string |-> "Fixing up /var"],
       [op |-> 18, string |-> "Flashing firmware"],
       [op |-> 19, string |-> "Updating baseband"],
       [op |-> 20, string |-> "Setting boot stage"],
       [op |-> 21, string |-> "Rebooting device"],
       [op |-> 22, string |-> "Shutdown device"],
       [op |-> 23, string |-> "Turning on accessory power"],
       [op |-> 24, string |-> "Clearing persistent boot-args"],
       [op |-> 25, string |-> "Modifying persistent boot-args"],
       [op |-> 26, string |-> "Installing root"],
       [op |-> 27, string |-> "Installing kernelcache"],
       [op |-> 28, string |-> "Waiting for NAND"],
       [op |-> 29, string |-> "Unmounting filesystems"],
       [op |-> 30, string |-> "Setting date and time on device"],
       [op |-> 31, string |-> "Executing iBEC to bootstrap update"],
       [op |-> 32, string |-> "Finalizing NAND epoch update"],
       [op |-> 33, string |-> "Checking for inappropriate bootable partitions"],
       [op |-> 34, string |-> "Creating factory restore marker"],
       [op |-> 35, string |-> "Loading firmware data to flash"],
       [op |-> 36, string |-> "Requesting FUD data"],
       [op |-> 37, string |-> "Removing activation record"],
       [op |-> 38, string |-> "Checking battery voltage"],
       [op |-> 39, string |-> "Waiting for battery to charge"],
       [op |-> 40, string |-> "Closing modem tickets"],
       [op |-> 41, string |-> "Migrating data"],
       [op |-> 42, string |-> "Wiping storage device"],
       [op |-> 43, string |-> "Sending Apple logo to device"],
       [op |-> 44, string |-> "Checking for uncollected logs"],
       [op |-> 46, string |-> "Clearing NVRAM"],
       [op |-> 47, string |-> "Updating gas gauge software"],
       [op |-> 48, string |-> "Preparing for baseband update"],
       [op |-> 49, string |-> "Booting the baseband"],
       [op |-> 50, string |-> "Creating system key bag"],
       [op |-> 51, string |-> "Updating IR MCU firmware"],
       [op |-> 52, string |-> "Resizing system partition"],
       [op |-> 53, string |-> "Collecting updater output"],
       [op |-> 54, string |-> "Pairing Stockholm"],
       [op |-> 55, string |-> "Updating Stockholm"],
       [op |-> 56, string |-> "Updating SWDHID"],
       [op |-> 57, string |-> "Certifying SEP"],
       [op |-> 58, string |-> "Updating NAND Firmware"],
       [op |-> 59, string |-> "Updating SE Firmware"],
       [op |-> 60, string |-> "Updating Savage"],
       [op |-> 61, string |-> "Installing DeviceTree"],
       [op |-> 62, string |-> "Certifying Savage"],
       [op |-> 63, string |-> "Submitting Provinfo"],
       [op |-> 64, string |-> "Certifying Yonkers"],
       [op |-> 65, string |-> "Updating Rose"],
       [op |-> 66, string |-> "Updating Veridian"],
       [op |-> 67, string |-> "Creating Protected Volume"],
       [op |-> 68, string |-> "Resizing Main Filesystem Partition"],
       [op |-> 69, string |-> "Creating Recovery OS Volume"],
       [op |-> 70, string |-> "Installing Recovery OS Files"],
       [op |-> 71, string |-> "Installing Recovery OS Image"],
       [op |-> 74, string |-> "Requesting EAN Data"],
       [op |-> 77, string |-> "Sealing System Volume"],
       [op |-> 81, string |-> "Updating AppleTCON"]
    >>

restore_progress_string(operation) ==
    IF \E k \in 1..Len(ProgressStrings) : ProgressStrings[k].op = operation
    THEN ProgressStrings[CHOOSE k \in 1..Len(ProgressStrings) :
                            ProgressStrings[k].op = operation].string
    ELSE "Unknown operation"

\* (int)v for an unsigned v below 2^32
ToInt(v) == IF v <= 2147483647 THEN v ELSE ((v - 2147483647) - 2147483647) - 2

\* The adaptation with its bound one lower
AdaptedOperation_From35(operation, version) ==
    IF version < 14 /\ ToInt(operation) >= 35 THEN ToInt(operation) + 1 ELSE ToInt(operation)

\* int adapted_operation = (int)operation; if (protocol_version < 14) ...
AdaptedOperation(operation, version) ==
    IF version < 14 /\ ToInt(operation) > 35 THEN ToInt(operation) + 1 ELSE ToInt(operation)

\* A switch that reports operation 48 as flashing the baseband
ProgressStep_BasebandAt48(adapted) ==
    IF adapted = 14 THEN <<"RESTORE_STEP_VERIFY_FS">>
    ELSE IF adapted = 18 THEN <<"RESTORE_STEP_FLASH_FW">>
    ELSE IF adapted \in {19, 48, 51} THEN <<"RESTORE_STEP_FLASH_BB">>
    ELSE IF adapted = 36 THEN <<"RESTORE_STEP_FUD">>
    ELSE NoField

\* The step idevicerestore_progress is called with: the switch over
\* adapted_operation.
ProgressStep(adapted) ==
    IF adapted = 14 THEN <<"RESTORE_STEP_VERIFY_FS">>
    ELSE IF adapted = 18 THEN <<"RESTORE_STEP_FLASH_FW">>
    ELSE IF adapted \in {19, 51} THEN <<"RESTORE_STEP_FLASH_BB">>
    ELSE IF adapted = 36 THEN <<"RESTORE_STEP_FUD">>
    ELSE NoField

\* The operation codes and progress values the messages carry.
OperationCodes == {0, 14, 18, 19, 35, 36, 37, 46, 47, 48, 50, 51, 81, 2147483646}

ProgressValues == {0, 1, 50, 100, 101}

ProgressIdle ==
    /\ protocol_version = 0
    /\ lastop = 0
    /\ pr_n = 0
    /\ pr_msg = NoMessage
    /\ adapted_operation = 0
    /\ pr_info = NoField
    /\ pr_step = NoField
    /\ pr_ret = 0

\* One ProgressMsg is handled.  pr_info and pr_step are what this call has
\* logged with info() and the step it has called idevicerestore_progress
\* with.
ProgressMsgStep ==
    /\ pr_n < MaxProgressMsgs
    /\ pr_n' = pr_n + 1
    /\ \E msg \in [MsgType : {"ProgressMsg"},
                   Operation : {NoField} \cup {<<c>> : c \in OperationCodes},
                   Progress : {NoField} \cup {<<p>> : p \in ProgressValues}] :
        /\ pr_msg' = msg
        /\ pr_ret' = restore_handle_progress_msg(msg)
        /\ IF restore_handle_progress_msg(msg) < 0
           THEN /\ pr_info' = NoField
                /\ pr_step' = NoField
                /\ UNCHANGED <<adapted_operation, lastop>>
           ELSE LET operation == msg.Operation[1]
                    progress == msg.Progress[1]
                    adapted == AdaptedOperation(operation, protocol_version)
                IN  /\ adapted_operation' = adapted
                    /\ IF progress > 0 /\ progress <= 100
                       THEN /\ pr_info' = IF ToInt(operation) # lastop
                                          THEN <<restore_progress_string(adapted)>>
                                          ELSE NoField
                            /\ pr_step' = ProgressStep(adapted)
                       ELSE /\ pr_info' = <<restore_progress_string(adapted)>>
                            /\ pr_step' = NoField
                    /\ lastop' = ToInt(operation)
    /\ UNCHANGED <<driver, streams, channel,
                   fwupdater,
                   options, rootticket, imagedata, protocol_version>>

\* ------------------------------------------------------- restore options
\* The options dictionary restore_device hands to restored_start_restore.

\* Largest number of times the options are composed from the same inputs.
MaxCompositions == 2

plist_dict_remove_item(d, key) ==
    LET Other(item) == item.key # key
    IN  SelectSeq(d, Other)

\* plist_dict_set_item for each item of items, in their order
RECURSIVE plist_dict_set_items(_, _)
plist_dict_set_items(d, items) ==
    IF items = <<>> THEN d
    ELSE plist_dict_set_items(plist_dict_set_item(d, Head(items).key, Head(items).val),
                              Tail(items))

\* _plist_dict_copy_data(dest, src, key, alt_key)
plist_dict_copy_data(dest, src, key, alt_key) ==
    IF Has(plist_dict_get_item(src, alt_key))
    THEN plist_dict_set_item(dest, key, plist_dict_get_item(src, alt_key)[1])
    ELSE dest

\* What generate_guid can return; "NULL" when it fails.
Guids == {"NULL", "GUID-1", "GUID-2"}

\* The preflight infos, build identities and boot arguments of the sessions.
PreflightInfos ==
    { NoField,
      << <<[key |-> "Nonce", val |-> "nonce"], [key |-> "FusingStatus", val |-> "3"],
           [key |-> "PkHash", val |-> "hash"], [key |-> "ChipID", val |-> "96"]>> >>,
      << <<[key |-> "PkHash", val |-> "hash"]>> >> }

BuildIdentities ==
    [MacOSVariant : {NoField, <<"macOS Customer">>},
     MinimumSystemPartition : {NoField, <<1024>>},
     RequiredCapacity : {NoField, <<[type |-> "PLIST_STRING", val |-> "8"]>>,
                         <<[type |-> "PLIST_UINT", val |-> "8"]>>},
     SystemPartitionPadding : {NoField, <<"padding of the build identity">>}]

\* The keys of the macOS branch, from AddSystemPartitionPadding to
\* recoveryOSPartitionSize.
MacOSOptions(erase, variant) ==
    << [key |-> "AddSystemPartitionPadding", val |-> TRUE],
       [key |-> "AllowUntetheredRestore", val |-> FALSE],
       [key |-> "AuthInstallEnableSso", val |-> FALSE] >>
    \o (IF Has(variant) THEN <<[key |-> "AuthInstallRecoveryOSVariant", val |-> variant[1]]>>
        ELSE <<>>)
    \o << [key |-> "AuthInstallRestoreBehavior", val |-> IF erase THEN "Erase" ELSE "Update"],
          [key |-> "AutoBootDelay", val |-> 0],
          [key |-> "BasebandUpdaterOutputPath", val |-> TRUE],
          [key |-> "DisableUserAuthentication", val |-> TRUE],
          [key |-> "FitSystemPartitionToContent", val |-> TRUE],
          [key |-> "FlashNOR", val |-> TRUE],
          [key |-> "FormatForAPFS", val |-> TRUE],
          [key |-> "FormatForLwVM", val |-> FALSE],
          [key |-> "InstallDiags", val |-> FALSE],
          [key |-> "InstallRecoveryOS", val |-> TRUE],
          [key |-> "MacOSSwapPerformed", val |-> TRUE],
          [key |-> "MacOSVariantPresent", val |-> TRUE],
          [key |-> "MinimumBatteryVoltage", val |-> 0],
          [key |-> "RecoveryOSUnpack", val |-> TRUE],
          [key |-> "ShouldRestoreSystemImage", val |-> TRUE],
          [key |-> "SkipPreflightPersonalization", val |-> FALSE],
          [key |-> "UpdateBaseband", val |-> TRUE],
          [key |-> "recoveryOSPartitionSize", val |-> 58201] >>

\* The keys of the other branch, from BootImageType to UpdateBaseband.
DeviceOptions ==
    << [key |-> "BootImageType", val |-> "UserOrInternal"],
       [key |-> "DFUFileType", val |-> "RELEASE"],
       [key |-> "DataImage", val |-> FALSE],
       [key |-> "FirmwareDirectory", val |-> "."],
       [key |-> "FlashNOR", val |-> TRUE],
       [key |-> "KernelCacheType", val |-> "Release"],
       [key |-> "NORImageType", val |-> "production"],
       [key |-> "RestoreBundlePath", val |-> "/tmp/Per2.tmp"],
       [key |-> "SystemImageType", val |-> "User"],
       [key |-> "UpdateBaseband", val |-> FALSE] >>

\* The padding used when the build identity has none.
DefaultSystemPartitionPadding ==
    << [key |-> "128", val |-> 1280], [key |-> "16", val |-> 160], [key |-> "32", val |-> 320],
       [key |-> "64", val |-> 640], [key |-> "8", val |-> 80] >>

\* The dictionary opts at the call of restored_start_restore.  in holds
\* client->flags & FLAG_ERASE, client->preflight_info, client->macos_variant,
\* the build identity and client->restore_boot_args; guid is what
\* generate_guid returned.
restore_options(in, guid) ==
    LET opts1 == plist_dict_set_item(<<>>, "AutoBootDelay", 0)
        opts2 ==
            IF Has(in.preflight_info)
            THEN LET bbus == plist_dict_remove_item(
                                 plist_dict_remove_item(in.preflight_info[1], "FusingStatus"),
                                 "PkHash")
                 IN  plist_dict_copy_data(plist_dict_set_item(opts1, "BBUpdaterState", bbus),
                                          in.preflight_info[1], "BasebandNonce", "Nonce")
            ELSE opts1
        opts3 == plist_dict_set_items(opts2,
                    << [key |-> "SupportedDataTypes", val |-> "restore_supported_data_types"],
                       [key |-> "SupportedMessageTypes",
                        val |-> "restore_supported_message_types"] >>)
        bi == in.build_identity
        opts4 ==
            IF in.macos_variant
            THEN LET set == plist_dict_set_items(opts3, MacOSOptions(in.erase, bi.MacOSVariant))
                 IN  IF Has(bi.MinimumSystemPartition)
                     THEN plist_dict_set_item(set, "SystemPartitionSize",
                                              bi.MinimumSystemPartition[1])
                     ELSE set
            ELSE LET set == plist_dict_set_items(opts3, DeviceOptions)
                     tz0 == IF Has(bi.RequiredCapacity)
                               /\ bi.RequiredCapacity[1].type = "PLIST_STRING"
                            THEN plist_dict_set_item(set, "TZ0RequiredCapacity",
                                                     bi.RequiredCapacity[1].val)
                            ELSE set
                 IN  plist_dict_set_item(tz0, "PersonalizedDuringPreflight", TRUE)
        opts5 == plist_dict_set_item(opts4, "RootToInstall", FALSE)
        opts6 == IF guid # "NULL" THEN plist_dict_set_item(opts5, "UUID", guid) ELSE opts5
        opts7 == plist_dict_set_items(opts6,
                    << [key |-> "CreateFilesystemPartitions", val |-> TRUE],
                       [key |-> "SystemImage", val |-> TRUE] >>)
        opts8 == IF Has(in.restore_boot_args)
                 THEN plist_dict_set_item(opts7, "RestoreBootArgs", in.restore_boot_args[1])
                 ELSE opts7
    IN  plist_dict_set_item(opts8, "SystemPartitionPadding",
                            IF Has(bi.SystemPartitionPadding)
                            THEN bi.SystemPartitionPadding[1]
                            ELSE DefaultSystemPartitionPadding)

\* A composition that moves the padding out of the build identity
InputsAfterOptions_PaddingMoved(in) ==
    [in EXCEPT !.build_identity.SystemPartitionPadding = NoField]

\* The inputs after a composition: what it takes of the preflight info and of
\* the build identity it takes as copies (plist_copy).
InputsAfterOptions(in) == in

OptionsIdle ==
    /\ opt_in = NoField
    /\ opts = <<>>

\* The options are composed once more.
ComposeOptions ==
    /\ Has(opt_in)
    /\ Len(opts) < MaxCompositions
    /\ \E guid \in Guids : opts' = Append(opts, restore_options(opt_in[1], guid))
    /\ opt_in' = <<InputsAfterOptions(opt_in[1])>>
    /\ UNCHANGED <<driver, streams, channel,
                   fwupdater,
                   progressmsg, rootticket, imagedata>>

\* ------------------------------------------------------------- RootTicket
\* restore_send_root_ticket

\* tss_response_get_ap_img4_ticket: the ticket, or NoField when it fails
tss_response_get_ap_img4_ticket(tss) ==
    IF Has(tss) THEN tss[1].ApImg4Ticket ELSE NoField

\* tss_response_get_ap_ticket: the ticket, or NoField when it fails
tss_response_get_ap_ticket(tss) ==
    IF Has(tss) THEN tss[1].APTicket ELSE NoField

\* The ticket responses client->tss can hold.
TicketResponses ==
    {NoField} \cup {<<r>> : r \in [ApImg4Ticket : {NoField, <<"img4 ticket">>},
                                   APTicket : {NoField, <<"ap ticket">>}]}

\* A variant that takes the ticket of the other slot
RootTicketData_SlotsSwapped(in) ==
    IF in.image4supported
    THEN [failed |-> ~Has(tss_response_get_ap_ticket(in.tss)),
          data |-> tss_response_get_ap_ticket(in.tss)]
    ELSE IF ~in.custom
         THEN [failed |-> ~Has(tss_response_get_ap_img4_ticket(in.tss)),
               data |-> tss_response_get_ap_img4_ticket(in.tss)]
         ELSE [failed |-> FALSE, data |-> NoField]

\* The else branch of restore_send_root_ticket after its test of client->tss:
\* whether getting the ticket failed, and the local data.
RootTicketData(in) ==
    IF in.image4supported
    THEN [failed |-> ~Has(tss_response_get_ap_img4_ticket(in.tss)),
          data |-> tss_response_get_ap_img4_ticket(in.tss)]
    ELSE IF ~in.custom
         THEN [failed |-> ~Has(tss_response_get_ap_ticket(in.tss)),
               data |-> tss_response_get_ap_ticket(in.tss)]
         ELSE [failed |-> FALSE, data |-> NoField]

TicketIdle ==
    /\ rt_in = NoField
    /\ rt_pc = "idle"
    /\ rt_dict = <<>>
    /\ rt_sent = <<>>
    /\ rt_ret = 0

\* The dictionary is made, or the handler returns -1 without one.
TicketPrepare ==
    /\ rt_pc = "entry"
    /\ LET in == rt_in[1]
       IN  IF Has(in.root_ticket)
           THEN /\ rt_dict' = plist_dict_set_item(<<>>, "RootTicketData", in.root_ticket[1])
                /\ rt_pc' = "send"
                /\ UNCHANGED rt_ret
           ELSE IF (~Has(in.tss) /\ ~in.custom) \/ RootTicketData(in).failed
           THEN /\ rt_pc' = "returned"
                /\ rt_ret' = -1
                /\ UNCHANGED rt_dict
           ELSE /\ rt_dict' = IF Has(RootTicketData(in).data)
                              THEN plist_dict_set_item(<<>>, "RootTicketData",
                                                       RootTicketData(in).data[1])
                              ELSE <<>>
                /\ rt_pc' = "send"
                /\ UNCHANGED rt_ret
    /\ UNCHANGED <<driver, streams, channel,
                   fwupdater,
                   progressmsg, options, imagedata, rt_in, rt_sent>>

\* restored_send of the dictionary
TicketSend ==
    /\ rt_pc = "send"
    /\ \E ok \in BOOLEAN :
         IF ok
         THEN /\ rt_sent' = Append(rt_sent, rt_dict)
              /\ rt_ret' = 0
         ELSE /\ rt_ret' = -1
              /\ UNCHANGED rt_sent
    /\ rt_pc' = "returned"
    /\ UNCHANGED <<driver, streams, channel,
                   fwupdater,
                   progressmsg, options, imagedata, rt_in, rt_dict>>

\* ------------------------------------- FUDData, EANData, PersonalizedData
\* restore_send_image_data

\* The data requests restore_send_image_data serves, with its arguments
\* image_list_k, image_type_k (NoField for NULL) and image_data_k.
ImageDataRequests ==
    { [DataType |-> "FUDData", image_list_k |-> "FUDImageList",
       image_type_k |-> <<"IsFUDFirmware">>, image_data_k |-> "FUDImageData"],
      [DataType |-> "PersonalizedData", image_list_k |-> "ImageList",
       image_type_k |-> NoField, image_data_k |-> "ImageData"],
      [DataType |-> "EANData", image_list_k |-> "EANImageList",
       image_type_k |-> <<"IsEarlyAccessFirmware">>, image_data_k |-> "EANData"] }

\* The Arguments of a request: whether the image list is wanted, ImageName and
\* ImageType.
ImageArguments ==
    [want_image_list : BOOLEAN,
     ImageName : {NoField, <<"Component1">>, <<"Component3">>},
     ImageType : {NoField, <<"IsFirmware">>}]

\* An entry of the Manifest: whether its Info has the image type as a true
\* boolean, whether the build identity has a path for it, and whether its
\* extraction and its personalization succeed.
ManifestEntries(component) ==
    [component : {component}, is_image_type : BOOLEAN, path : BOOLEAN,
     extracts : BOOLEAN, personalizes : BOOLEAN]

\* The Manifests: of no, one and two entries.
Manifests ==
    {<<>>}
    \cup {<<a>> : a \in ManifestEntries("Component1")}
    \cup {<<a, b>> : a \in ManifestEntries("Component1"), b \in ManifestEntries("Component2")}

\* The data stored for a component: its personalized data, or no data
\* (plist_new_data(NULL, 0)) when personalize_component failed.
ComponentData(entry) ==
    IF entry.personalizes THEN personalize_component(entry.component)
    ELSE [personalized |-> ""]

\* extract_component is called only with a path, and ret is -1 without one.
ExtractFailed(entry) == ~entry.path \/ ~entry.extracts

ImageIdle ==
    /\ im_in = NoField
    /\ im_pc = "idle"
    /\ im_idx = 0
    /\ matched_images = <<>>
    /\ data_dict = <<>>
    /\ im_failed = FALSE
    /\ im_sent = <<>>
    /\ im_ret = 0

\* image_type_k after the Arguments are read
ImageTypeKey(in) ==
    IF Has(in.request.image_type_k) THEN in.request.image_type_k ELSE in.arguments.ImageType

\* The Arguments are read; without an image type the handler returns -1.
ImageBegin ==
    /\ im_pc = "entry"
    /\ IF ~Has(ImageTypeKey(im_in[1]))
       THEN /\ im_pc' = "returned"
            /\ im_ret' = -1
       ELSE /\ im_pc' = "manifest"
            /\ UNCHANGED im_ret
    /\ UNCHANGED <<driver, streams, channel,
                   fwupdater,
                   progressmsg, options, rootticket, im_in, im_idx,
                   matched_images, data_dict, im_failed, im_sent>>

\* One entry of the Manifest.  im_failed records that the extraction or the
\* personalization of a component whose data was asked for has failed.
ImageEntry ==
    /\ im_pc = "manifest"
    /\ im_idx <= Len(im_in[1].manifest)
    /\ LET in == im_in[1]
           entry == in.manifest[im_idx]
           image_name == in.arguments.ImageName
       IN  IF ~entry.is_image_type
           THEN UNCHANGED <<matched_images, data_dict, im_failed>>
           ELSE IF in.arguments.want_image_list
           THEN /\ matched_images' = plist_array_append_item(matched_images, entry.component)
                /\ UNCHANGED <<data_dict, im_failed>>
           ELSE IF ~Has(image_name) \/ image_name[1] = entry.component
           THEN /\ data_dict' = plist_dict_set_item(data_dict, entry.component,
                                                    ComponentData(entry))
                /\ im_failed' = (im_failed \/ ExtractFailed(entry) \/ ~entry.personalizes)
                /\ UNCHANGED matched_images
           ELSE UNCHANGED <<matched_images, data_dict, im_failed>>
    /\ im_idx' = im_idx + 1
    /\ UNCHANGED <<driver, streams, channel,
                   fwupdater,
                   progressmsg, options, rootticket, im_in, im_pc, im_sent,
                   im_ret>>

\* The reply made of what the loop has collected
ImageReply(in, images, data) ==
    IF in.arguments.want_image_list
    THEN plist_dict_set_item(<<>>, in.request.image_list_k, images)
    ELSE IF Has(in.arguments.ImageName)
    THEN plist_dict_set_item(
             IF Has(plist_dict_get_item(data, in.arguments.ImageName[1]))
             THEN plist_dict_set_item(<<>>, in.request.image_data_k,
                                      plist_dict_get_item(data, in.arguments.ImageName[1])[1])
             ELSE <<>>,
             "ImageName", in.arguments.ImageName[1])
    ELSE plist_dict_set_item(<<>>, in.request.image_data_k, data)

\* The reply is made and sent.
ImageSend ==
    /\ im_pc = "manifest"
    /\ im_idx > Len(im_in[1].manifest)
    /\ \E ok \in BOOLEAN :
         IF ok
         THEN /\ im_sent' = Append(im_sent, ImageReply(im_in[1], matched_images, data_dict))
              /\ im_ret' = 0
         ELSE /\ im_ret' = -1
              /\ UNCHANGED im_sent
    /\ im_pc' = "returned"
    /\ UNCHANGED <<driver, streams, channel,
                   fwupdater,
                   progressmsg, options, rootticket, im_in, im_idx,
                   matched_images, data_dict, im_failed>>

\* ------------------------------------------- FirmwareUpdaterData data request
\* restore_send_firmware_updater_data and the restore_get_*_firmware_data helpers

\* The updater names restore_send_firmware_updater_data dispatches on, and one
\* it does not know.
UpdaterNames == {"SE", "Savage", "Rose", "T200", "AppleTCON", "AppleTypeCRetimer", "Foo"}

\* The Arguments of a FirmwareUpdaterData request: MessageArgType,
\* MessageArgUpdaterName and MessageArgInfo, each possibly missing. The info
\* dictionary says whether it holds a YonkersDeviceInfo dictionary and names
\* the ticket of a Timer request (InfoArray[0].TicketName).
UpdaterInfos ==
    [YonkersDeviceInfo : BOOLEAN, TicketName : {"Timer,Ticket,1"}]

UpdaterArguments ==
    [MessageArgType : {NoField, <<"FirmwareResponseData">>, <<"Foo">>},
     MessageArgUpdaterName : {NoField} \cup {<<n>> : n \in UpdaterNames},
     MessageArgInfo : {NoField} \cup {<<i>> : i \in UpdaterInfos}]

\* The key each helper looks up in the TSS response.
TicketName(updater, p_info) ==
    CASE updater = "SE" -> "SE,Ticket"
      [] updater = "Savage" ->
            IF p_info.YonkersDeviceInfo THEN "Yonkers,Ticket" ELSE "Savage,Ticket"
      [] updater = "Rose" -> "Rap,Ticket"
      [] updater = "T200" -> "BMU,Ticket"
      [] updater = "AppleTCON" -> "Baobab,Ticket"
      [] updater = "AppleTypeCRetimer" -> p_info.TicketName

\* What tss_request_send returns: NULL (NoField), or a response dictionary
\* that is empty, holds the ticket of the subsystem, or holds another key.
TssResponses ==
    {NoField, <<(<<>>)>>}
    \cup {<<(<<[key |-> k, val |-> "ticket"]>>)>> :
             k \in {"SE,Ticket", "Savage,Ticket", "Yonkers,Ticket", "Rap,Ticket",
                    "BMU,Ticket", "Baobab,Ticket", "Timer,Ticket,1"}}

\* What a helper logs after the TSS response arrived.
TicketLog(tss_response, ticket_name) ==
    IF Has(plist_dict_get_item(tss_response, ticket_name))
    THEN <<"Received", ticket_name>>
    ELSE <<"ERROR: No ticket in TSS response, this might not work", ticket_name>>

\* The helper without the component's data in what it returns.
restore_get_firmware_data_NoData(component, tss_response) ==
    IF ~component \/ ~Has(tss_response) THEN NoField
    ELSE <<tss_response[1]>>

\* restore_get_se_firmware_data and its siblings: NULL (NoField) when the
\* component cannot be had or the TSS request returns no response, else the
\* response with FirmwareData set.
restore_get_firmware_data(component, tss_response) ==
    IF ~component \/ ~Has(tss_response) THEN NoField
    ELSE <<plist_dict_set_item(tss_response[1], "FirmwareData", "component_data")>>

FirmwareIdle ==
    /\ fu_in = <<>>
    /\ fu_pc = "idle"
    /\ fwdict = NoField
    /\ fu_log = <<>>
    /\ fu_sent = <<>>
    /\ fu_ret = 0

\* The checks of the Arguments up to the dispatch on the updater name.
FirmwareArguments ==
    /\ fu_pc = "entry"
    /\ LET arguments == fu_in[1].Arguments
           valid == /\ Has(arguments)
                    /\ Has(arguments[1].MessageArgType)
                    /\ Has(arguments[1].MessageArgUpdaterName)
                    /\ arguments[1].MessageArgType[1] = "FirmwareResponseData"
                    /\ Has(arguments[1].MessageArgInfo)
                    /\ arguments[1].MessageArgUpdaterName[1] # "Foo"
       IN  IF valid
           THEN /\ fu_pc' = "helper"
                /\ UNCHANGED fu_ret
           ELSE /\ fu_pc' = "returned"
                /\ fu_ret' = -1
    /\ UNCHANGED <<driver, streams, channel,
                   progressmsg, options, rootticket, imagedata,
                   fu_in, fwdict, fu_log, fu_sent>>

\* The helper of the named updater runs: it sends the TSS request, logs
\* whether the response has the ticket, and adds the component's data.
FirmwareHelper ==
    /\ fu_pc = "helper"
    /\ LET arguments == fu_in[1].Arguments[1]
           ticket_name == TicketName(arguments.MessageArgUpdaterName[1],
                                      arguments.MessageArgInfo[1])
           tss_response == fu_in[1].response
           dict == restore_get_firmware_data(fu_in[1].component, tss_response)
           \* restore_get_se_firmware_data extracts the component before it
           \* sends the TSS request, the other helpers after
           asked == arguments.MessageArgUpdaterName[1] = "SE" => fu_in[1].component
       IN  /\ fu_log' = IF asked /\ Has(tss_response)
                        THEN TicketLog(tss_response[1], ticket_name)
                        ELSE <<>>
           /\ fwdict' = dict
           /\ IF Has(dict)
              THEN /\ fu_pc' = "send"
                   /\ UNCHANGED fu_ret
              ELSE /\ fu_pc' = "returned"
                   /\ fu_ret' = -1
    /\ UNCHANGED <<driver, streams, channel,
                   progressmsg, options, rootticket, imagedata,
                   fu_in, fu_sent>>

\* restored_send of the FirmwareResponseData dictionary.
FirmwareSend ==
    /\ fu_pc = "send"
    /\ fu_pc' = "returned"
    /\ IF fu_in[1].send_ok
       THEN /\ fu_sent' = <<[FirmwareResponseData |-> fwdict[1]]>>
            /\ fu_ret' = 0
       ELSE /\ fu_ret' = -1
            /\ UNCHANGED fu_sent
    /\ UNCHANGED <<driver, streams, channel,
                   progressmsg, options, rootticket, imagedata,
                   fu_in, fwdict, fu_log>>

\* ------------------------------------------ the restore channel and reboot
\* restore_open_with_timeout, restore_reboot, restore_client_free

\* The modes the device-event callback records.
Modes == {"MODE_RESTORE", "MODE_RECOVERY", "MODE_UNKNOWN"}

\* The time bound of cond_wait_timeout, 30000 ms, in ticks of 10 s.
WaitTicks == 3

MaxOpens == 2

MaxReboots == 2

\* restored_client_free on the handle h; NULL (0) is refused by the library.
restored_client_free(frees, h) ==
    IF h = 0 THEN frees ELSE [frees EXCEPT ![h] = @ + 1]

ChannelIdle ==
    /\ mode = "MODE_RESTORE"
    /\ cl_restore = FALSE
    /\ cl_client = 0
    /\ handle_frees = [h \in 1..MaxOpens |-> 0]
    /\ nopens = 0
    /\ nreboots = 0
    /\ rb_pc = "idle"
    /\ rb_clock = 0
    /\ rb_signalled = FALSE
    /\ rb_left = -1
    /\ rb_call = "none"
    /\ rb_ret = 0
    /\ rb_ret_at = -1

\* restore_open_with_timeout: client->restore is allocated if it is not yet,
\* and on success client->restore->client is set to the new handle.
restore_open_with_timeout(connects) ==
    /\ cl_restore' = TRUE
    /\ IF connects
       THEN /\ nopens' = nopens + 1
            /\ cl_client' = nopens + 1
       ELSE UNCHANGED <<nopens, cl_client>>

OpenWithTimeout ==
    /\ rb_pc = "idle"
    /\ nopens < MaxOpens
    /\ \E connects \in BOOLEAN :
          /\ restore_open_with_timeout(connects)
          /\ rb_ret' = IF connects THEN 0 ELSE -1
    /\ rb_call' = "restore_open_with_timeout"
    /\ UNCHANGED <<driver, streams, progressmsg, options, rootticket, imagedata, fwupdater,
                   mode, handle_frees, nreboots, rb_pc, rb_clock, rb_signalled, rb_left,
                   rb_ret_at>>

\* restore_reboot up to cond_wait_timeout: the channel is opened if
\* client->restore is NULL, then, holding device_event_mutex, the reboot is
\* sent and the handle is freed; the pointer to it is left in place.
RebootBegin ==
    /\ rb_pc = "idle"
    /\ nreboots < MaxReboots
    /\ nreboots' = nreboots + 1
    /\ IF cl_restore
       THEN /\ handle_frees' = restored_client_free(handle_frees, cl_client)
            /\ rb_pc' = "waiting"
            /\ rb_clock' = 0
            /\ rb_left' = -1
            /\ rb_ret_at' = -1
            /\ UNCHANGED <<cl_restore, cl_client, nopens, rb_call, rb_ret>>
       ELSE /\ nopens < MaxOpens
            /\ \E connects \in BOOLEAN :
                  /\ restore_open_with_timeout(connects)
                  /\ IF connects
                     THEN /\ handle_frees' = restored_client_free(handle_frees, nopens + 1)
                          /\ rb_pc' = "waiting"
                          /\ rb_clock' = 0
                          /\ rb_left' = -1
                          /\ rb_ret_at' = -1
                          /\ UNCHANGED <<rb_call, rb_ret>>
                     ELSE /\ rb_call' = "restore_reboot"
                          /\ rb_ret' = -1
                          /\ rb_ret_at' = -1
                          /\ UNCHANGED <<handle_frees, rb_pc, rb_clock, rb_left>>
    /\ rb_signalled' = FALSE
    /\ UNCHANGED <<driver, streams, progressmsg, options, rootticket, imagedata, fwupdater,
                   mode>>

\* Ten seconds pass after the reboot was sent.
Tick ==
    /\ rb_pc = "waiting" \/ rb_ret_at # -1
    /\ rb_clock < WaitTicks
    /\ rb_clock' = rb_clock + 1
    /\ UNCHANGED <<driver, streams, progressmsg, options, rootticket, imagedata, fwupdater,
                   mode, cl_restore, cl_client, handle_frees, nopens, nreboots, rb_pc,
                   rb_signalled, rb_left, rb_call, rb_ret, rb_ret_at>>

\* The device-enumeration callback: under device_event_mutex it records the
\* mode of the device that connected or disconnected and signals
\* device_event_cond. restore_reboot holds the mutex except while it waits.
DeviceEvent ==
    /\ \E m \in Modes :
          /\ mode' = m
          /\ rb_left' = IF rb_left = -1 /\ m # "MODE_RESTORE" /\ rb_clock < WaitTicks
                           /\ (rb_pc = "waiting" \/ rb_ret_at # -1)
                        THEN rb_clock ELSE rb_left
    /\ rb_signalled' = (rb_pc = "waiting")
    /\ UNCHANGED <<driver, streams, progressmsg, options, rootticket, imagedata, fwupdater,
                   cl_restore, cl_client, handle_frees, nopens, nreboots, rb_pc, rb_clock,
                   rb_call, rb_ret, rb_ret_at>>

\* cond_wait_timeout returns, on a signal or when the bound has elapsed, and
\* restore_reboot tests client->mode once.
RebootWake ==
    /\ rb_pc = "waiting"
    /\ rb_signalled \/ rb_clock = WaitTicks
    /\ rb_pc' = "idle"
    /\ rb_call' = "restore_reboot"
    /\ rb_ret' = IF mode = "MODE_RESTORE" THEN -1 ELSE 0
    /\ rb_ret_at' = rb_clock
    /\ rb_signalled' = FALSE
    /\ UNCHANGED <<driver, streams, progressmsg, options, rootticket, imagedata, fwupdater,
                   mode, cl_restore, cl_client, handle_frees, nopens, nreboots, rb_clock,
                   rb_left>>

\* restore_client_free
ClientFree ==
    /\ rb_pc = "idle"
    /\ cl_restore
    /\ handle_frees' = restored_client_free(handle_frees, cl_client)
    /\ cl_client' = 0
    /\ cl_restore' = FALSE
    /\ rb_call' = "restore_client_free"
    /\ rb_ret' = 0
    /\ UNCHANGED <<driver, streams, progressmsg, options, rootticket, imagedata, fwupdater,
                   mode, nopens, nreboots, rb_pc, rb_clock, rb_signalled, rb_left, rb_ret_at>>

\* ------------------------------------------------------------ specifications
StreamsIdle == BootObjectIdle /\ NorIdleAt("idle") /\ BasebandIdle /\ BundleIdle

RepliesIdle == ProgressIdle /\ OptionsIdle /\ TicketIdle /\ ImageIdle /\ FirmwareIdle /\ ChannelIdle

Init == InitDriver /\ StreamsIdle /\ RepliesIdle

Next == DriverStep

Spec == Init /\ [][Next]_vars

\* The loop of restore_device is sequential code: a step that it can take is
\* taken. What restored_receive returns is up to the device and the transport.
SpecFair == Init /\ [][Next]_vars /\ WF_vars(Next)

InitBootObject ==
    /\ AtDataRequest({"PersonalizedBootObjectV3", "SourceBootObjectV4"})
    /\ bo_pc = "entry"
    /\ bo_size = 0
    /\ bo_i = 0
    /\ bo_sent = <<>>
    /\ bo_ret = 0
    /\ bo_send_failed = FALSE
    /\ NorIdleAt("idle")
    /\ BasebandIdle
    /\ BundleIdle
    /\ RepliesIdle

NextBootObject ==
    \/ BootObjectPrepare
    \/ BootObjectSendChunk
    \/ BootObjectSendDone

SpecBootObject == InitBootObject /\ [][NextBootObject]_vars

InitNor ==
    /\ AtDataRequest({"NORData"})
    /\ BootObjectIdle
    /\ NorIdleAt("entry")
    /\ BasebandIdle
    /\ BundleIdle
    /\ RepliesIdle

NextNor ==
    \/ NorBegin
    \/ NorManifestLine
    \/ NorManifestEntry
    \/ NorLLB
    \/ NorNextComponent
    \/ NorRestoreSEP
    \/ NorSEP
    \/ NorSend

SpecNor == InitNor /\ [][NextNor]_vars

\* restore_sign_bbfw, called for one archive with one response.
InitSignBbfw ==
    /\ AtDataRequest({"BasebandData"})
    /\ BootObjectIdle
    /\ NorIdleAt("idle")
    /\ BundleIdle
    /\ RepliesIdle
    /\ bb_pc = "sign"
    /\ BasebandStart
    /\ bbtss = NoResponse
    /\ bbfw_ipsw \in {ArchiveFrom(ps, 1) : ps \in {qs \in SUBSET (1..Len(BbfwFileNames)) :
                                                   Cardinality(qs) <= MaxBbfwFiles}}
    /\ \E nonce \in {NoField, <<"N1">>}, ticket \in BOOLEAN,
          firmware \in {NoField} \cup
                       {<<q>> : q \in DistinctSeqsOf(BasebandFirmwareItems, MaxBlobs)} :
        /\ bb_nonce = nonce
        /\ sign_bbtss = TssResponse(1, nonce, ticket, firmware)
        /\ response = sign_bbtss
    /\ bbfw_file = bbfw_ipsw

NextSignBbfw ==
    \/ SignOpen
    \/ SignItem
    \/ SignPrune
    \/ SignTicket
    \/ SignClose

SpecSignBbfw == InitSignBbfw /\ [][NextSignBbfw]_vars

\* The BasebandData requests of one session.
InitBaseband ==
    /\ AtDataRequest({"BasebandData"})
    /\ BootObjectIdle
    /\ NorIdleAt("idle")
    /\ BundleIdle
    /\ RepliesIdle
    /\ bb_pc = "idle"
    /\ BasebandStart
    /\ BasebandBetweenRequests
    /\ bbtss \in {NoResponse} \cup
                 {TssResponse(0, NoField, TRUE, firmware) :
                     firmware \in {NoField} \cup {<<f>> : f \in SessionFirmwares}}
    /\ bbfw_ipsw \in SessionArchives

NextBaseband ==
    \/ BbArguments
    \/ BbTssRequest
    \/ BbExtract
    \/ SignOpen
    \/ SignItem
    \/ SignPrune
    \/ SignTicket
    \/ SignClose
    \/ BbSend

SpecBaseband == InitBaseband /\ [][NextBaseband]_vars

\* The two handlers that connect to a data port of the device.
InitBundle ==
    /\ \/ /\ AtDataRequest({"BootabilityBundle"})
          /\ bu_handler = "BootabilityBundle"
          /\ bu_listing \in SeqsUpTo(ArchiveEntries, MaxBundleEntries)
       \/ /\ AtDispatch(BasebandUpdaterOutputMsgs)
          /\ bu_handler = "BasebandUpdaterOutputData"
          /\ bu_listing = <<>>
    /\ BootObjectIdle
    /\ NorIdleAt("idle")
    /\ BasebandIdle
    /\ RepliesIdle
    /\ bu_pc = "connect"
    /\ attempts = CONNECT_ATTEMPTS
    /\ device_error = "IDEVICE_E_SUCCESS"
    /\ connection = "NULL"
    /\ bu_nconnect = 0
    /\ bu_idx = 1
    /\ bu_stream = <<>>
    /\ bu_send_failed = FALSE
    /\ bu_file = NoField
    /\ bu_reads = 0
    /\ bu_ret = 0

NextBundle ==
    \/ BuConnect
    \/ BuGiveUp
    \/ BuSendOne
    \/ BuTrailer
    \/ BuOpenOutput
    \/ BuReceive

SpecBundle == InitBundle /\ [][NextBundle]_vars

\* A session's ProgressMsg messages, under each protocol version.
InitProgress ==
    /\ AtDispatch([MsgType : {"ProgressMsg"}, Operation : {<<47>>}, Progress : {<<50>>}])
    /\ StreamsIdle
    /\ ChannelIdle
    /\ FirmwareIdle
    /\ ImageIdle
    /\ OptionsIdle
    /\ TicketIdle
    /\ protocol_version \in {13, 14, 15}
    /\ lastop \in {0, 47}
    /\ pr_n = 0
    /\ pr_msg = NoMessage
    /\ adapted_operation = 0
    /\ pr_info = NoField
    /\ pr_step = NoField
    /\ pr_ret = 0

NextProgress == ProgressMsgStep

SpecProgress == InitProgress /\ [][NextProgress]_vars

\* restore_device before restored_start_restore, with the inputs of the
\* options.
InitOptions ==
    /\ InitDriver
    /\ HAVE_RESTORE_E_RECEIVE_TIMEOUT
    /\ flags = {}
    /\ restore_finished = 0
    /\ StreamsIdle
    /\ ChannelIdle
    /\ FirmwareIdle
    /\ ImageIdle
    /\ ProgressIdle
    /\ TicketIdle
    /\ opt_in \in {<<in>> : in \in [erase : BOOLEAN,
                                     preflight_info : PreflightInfos,
                                     macos_variant : BOOLEAN,
                                     build_identity : BuildIdentities,
                                     restore_boot_args : {NoField, <<"rd=md0">>}]}
    /\ opts = <<>>

NextOptions == ComposeOptions

SpecOptions == InitOptions /\ [][NextOptions]_vars

\* A RootTicket request, for each state of the client's tickets.
InitTicket ==
    /\ AtDataRequest({"RootTicket"})
    /\ StreamsIdle
    /\ ChannelIdle
    /\ FirmwareIdle
    /\ ImageIdle
    /\ ProgressIdle
    /\ OptionsIdle
    /\ rt_in \in {<<in>> : in \in [root_ticket : {NoField, <<"user ticket">>},
                                    tss : TicketResponses,
                                    custom : BOOLEAN,
                                    image4supported : BOOLEAN]}
    /\ rt_pc = "entry"
    /\ rt_dict = <<>>
    /\ rt_sent = <<>>
    /\ rt_ret = 0

NextTicket == TicketPrepare \/ TicketSend

SpecTicket == InitTicket /\ [][NextTicket]_vars

\* One DataRequestMsg of any data type, handled or unknown, is dispatched,
\* with and without FLAG_EXCLUDE.
InitDataRequest ==
    /\ Dispatching([MsgType : {"DataRequestMsg"},
                    DataType : {NoField, <<"FooData">>} \cup {<<h>> : h \in HandledDataTypes},
                    failed : BOOLEAN],
                   {{}, {"FLAG_EXCLUDE"}})
    /\ StreamsIdle
    /\ RepliesIdle

NextDataRequest == HandleDataRequestMsg

SpecDataRequest == InitDataRequest /\ [][NextDataRequest]_vars

\* A FUDData, EANData or PersonalizedData request.
InitImageData ==
    /\ \E request \in ImageDataRequests :
          /\ AtDataRequest({request.DataType})
          /\ im_in \in {<<[request |-> request, arguments |-> a, manifest |-> m]>> :
                            a \in ImageArguments, m \in Manifests}
    /\ StreamsIdle
    /\ ChannelIdle
    /\ FirmwareIdle
    /\ ProgressIdle
    /\ OptionsIdle
    /\ TicketIdle
    /\ im_pc = "entry"
    /\ im_idx = 1
    /\ matched_images = <<>>
    /\ data_dict = <<>>
    /\ im_failed = FALSE
    /\ im_sent = <<>>
    /\ im_ret = 0

NextImageData == ImageBegin \/ ImageEntry \/ ImageSend

SpecImageData == InitImageData /\ [][NextImageData]_vars

\* A FirmwareUpdaterData request.
InitFirmware ==
    /\ AtDataRequest({"FirmwareUpdaterData"})
    /\ fu_in \in {<<[Arguments |-> a, response |-> r, component |-> c, send_ok |-> s]>> :
                     a \in {NoField} \cup {<<x>> : x \in UpdaterArguments},
                     r \in TssResponses, c \in BOOLEAN, s \in BOOLEAN}
    /\ StreamsIdle
    /\ ChannelIdle
    /\ ProgressIdle
    /\ OptionsIdle
    /\ TicketIdle
    /\ ImageIdle
    /\ fu_pc = "entry"
    /\ fwdict = NoField
    /\ fu_log = <<>>
    /\ fu_sent = <<>>
    /\ fu_ret = 0

NextFirmware == FirmwareArguments \/ FirmwareHelper \/ FirmwareSend

SpecFirmware == InitFirmware /\ [][NextFirmware]_vars

\* Calls of restore_open_with_timeout, restore_reboot and restore_client_free
\* on one client, with the device-event callback running beside them.
InitChannel ==
    /\ InitDriver
    /\ HAVE_RESTORE_E_RECEIVE_TIMEOUT
    /\ flags = {}
    /\ restore_finished = 0
    /\ StreamsIdle
    /\ RepliesIdle

NextChannel ==
    \/ OpenWithTimeout
    \/ RebootBegin
    \/ Tick
    \/ DeviceEvent
    \/ RebootWake
    \/ ClientFree

SpecChannel == InitChannel /\ [][NextChannel]_vars

\* ------------------------------------------------------------------ claims
Count(seq, x) == Cardinality({k \in 1..Len(seq) : seq[k] = x})

\* The last n elements of seq (all of it when it is shorter).
LastN(seq, n) ==
    IF Len(seq) <= n THEN seq ELSE SubSeq(seq, Len(seq) - n + 1, Len(seq))

InLoop(p) == p \in {"loop", "receive", "dispatch"}

\* C1: without FLAG_IGNORE_ERRORS, once a message handler has returned a
\* negative value, restore_device returns a negative value.
C1_HandlerErrorIsReturned ==
    (pc = "returned" /\ "FLAG_IGNORE_ERRORS" \notin flags /\ handlerFailed) => ret < 0

\* C2: without FLAG_IGNORE_ERRORS, after a handler has returned a negative
\* value no further message is received and handed to a handler.
C2_NoDispatchAfterHandlerError ==
    "FLAG_IGNORE_ERRORS" \notin flags => dispatchedAfterFail = 0

\* The StatusMsg of claim C3: Status 0 and no AMRError.
CleanFinalStatus(msg) ==
    /\ msg.MsgType = "StatusMsg"
    /\ msg.Status = <<0>>
    /\ msg.AMRError = NoField

\* C3: after a StatusMsg with Status 0 and no AMRError was handled, no handler
\* having failed before, the session is marked finished, exactly one
\* ReceivedFinalStatusMsg has been sent, FLAG_QUIT is set, nothing more is
\* received, and restore_device tears down and returns 0.
C3_FinalStatusEndsSession ==
    (CleanFinalStatus(last_status) /\ ~handlerFailed) =>
        /\ restore_finished = 1
        /\ Count(sent, "ReceivedFinalStatusMsg") = 1
        /\ "FLAG_QUIT" \in flags
        /\ pc \in {"loop", "teardown", "returned"}
        /\ err = 0
        /\ pc = "returned" =>
              /\ ret = 0
              /\ session = "freed"
              /\ LastN(released, Len(TeardownReleases(rproxy))) = TeardownReleases(rproxy)

C3_Witness ==
    /\ CleanFinalStatus(last_status)
    /\ ~handlerFailed
    /\ pc = "returned"
    /\ ret = 0
    /\ nreceive < MaxReceive

\* A step in which restored_receive is called and returns re.
ReceiveReturns(re) == nreceive' = nreceive + 1 /\ restore_error' = re

\* C4: a receive timeout hands no message to a handler, sends nothing, leaves
\* err (and the flags) unchanged and goes back to the loop condition; and from
\* the loop condition, with FLAG_QUIT unset and no error pending, the loop goes
\* on to restored_receive with FLAG_QUIT still unset.
C4_TimeoutIsEmptyTick ==
    [][ /\ ReceiveReturns("RESTORE_E_RECEIVE_TIMEOUT") =>
            /\ ndispatch' = ndispatch
            /\ sent' = sent
            /\ err' = err
            /\ flags' = flags
            /\ released' = released
            /\ pc' = "loop"
        /\ (pc = "loop" /\ "FLAG_QUIT" \notin flags /\ err >= 0) =>
            /\ pc' = "receive"
            /\ "FLAG_QUIT" \notin flags'
            /\ err' >= 0 ]_vars

\* Two timeouts in a row, and the loop is at restored_receive again.
C4_Witness ==
    /\ pc = "receive"
    /\ nreceive = 2
    /\ ndispatch = 0
    /\ restore_error = "RESTORE_E_RECEIVE_TIMEOUT"
    /\ HAVE_RESTORE_E_RECEIVE_TIMEOUT
    /\ sent = <<>>

\* The state restore_device is in after restored_receive reported an error
\* that is no timeout, as claim C5 has it.
AfterReceiveError ==
    /\ pc \in {"teardown", "returned"}
    /\ pc = "teardown" => err = -11
    /\ pc = "returned" =>
          /\ ret = -11
          /\ session = "freed"
          /\ LastN(released, Len(TeardownReleases(rproxy))) = TeardownReleases(rproxy)

\* C5 (as amended): in a build with HAVE_RESTORE_E_RECEIVE_TIMEOUT, when
\* restored_receive reports an error that is no timeout, restore_device leaves
\* the loop at once, hands the handlers nothing, releases the side channel and
\* the session and returns -11, with and without FLAG_IGNORE_ERRORS.
C5_ReceiveErrorAborts ==
    (HAVE_RESTORE_E_RECEIVE_TIMEOUT /\ nreceive > 0
        /\ restore_error = "RESTORE_E_MUX_ERROR") => AfterReceiveError

\* C5 as stated: the same in every build.
C5_ReceiveErrorAbortsInEveryBuild ==
    (nreceive > 0 /\ restore_error = "RESTORE_E_MUX_ERROR") => AfterReceiveError

C5_Witness ==
    /\ HAVE_RESTORE_E_RECEIVE_TIMEOUT
    /\ "FLAG_IGNORE_ERRORS" \in flags
    /\ restore_error = "RESTORE_E_MUX_ERROR"
    /\ nreceive = 2
    /\ pc = "returned"
    /\ ret = -11
    /\ rproxy # 0

\* C6: whenever restore_device has returned after the reverse proxy was
\* created, the last two releases were the reverse proxy and then the session.
C6_TeardownOnEveryReturn ==
    (pc = "returned" /\ rproxy # 0) =>
        LastN(released, 2) = <<ProxyName(rproxy), "session">>

\* The messages of claim C7 that lack a field their type requires.
LacksRequiredField(msg) ==
    \/ msg.MsgType = ""
    \/ msg.MsgType = "ProgressMsg" /\ (~Has(msg.Operation) \/ ~Has(msg.Progress))
    \/ msg.MsgType = "PreviousRestoreLogMsg" /\ ~Has(msg.PreviousRestoreLog)
    \/ msg.MsgType = "CheckpointMsg"
          /\ (~Has(msg.CHECKPOINT_ID) \/ ~Has(msg.CHECKPOINT_RESULT))

\* The message is dropped: nothing but the message and the position changes.
MessageSkipped ==
    /\ pc' = "loop"
    /\ err' = err
    /\ flags' = flags
    /\ ndispatch' = ndispatch
    /\ sent' = sent

C8_IgnoreErrorsKeepsGoing ==
    [][ "FLAG_IGNORE_ERRORS" \in flags =>
        /\ ("FLAG_QUIT" \notin flags /\ "FLAG_QUIT" \in flags') =>
              /\ pc = "dispatch"
              /\ \/ message.MsgType = "StatusMsg" /\ restore_finished' = 1
                 \/ /\ message.MsgType = "DataRequestMsg"
                    /\ message.DataType = <<"NORData">>
                    /\ "FLAG_EXCLUDE" \in flags
        /\ (InLoop(pc) /\ ~InLoop(pc')) =>
              \/ pc = "loop" /\ "FLAG_QUIT" \in flags
              \/ pc = "receive" /\ restore_error' = "RESTORE_E_MUX_ERROR" ]_vars

FileDataOf(seq) == SelectSeq(seq, LAMBDA m : m.key = "FileData")

RECURSIVE TotalLen(_)
TotalLen(seq) == IF seq = <<>> THEN 0 ELSE Head(seq).len + TotalLen(Tail(seq))

Ceil(n, d) == (n + d - 1) \div d

\* C9: the FileData messages sent carry between 1 and 8192 bytes each and, in
\* send order, consecutive pieces of the data from its start; a handler that
\* returned 0 has sent ceil(n / 8192) of them covering all n bytes, followed by
\* exactly one FileDataDone; FileDataDone is never followed by anything; and
\* once a send has failed the handler returns -1 and has sent no FileDataDone.
C9_ChunkedReply ==
    LET chunks == FileDataOf(bo_sent)
    IN  /\ \A k \in 1..Len(chunks) :
              /\ chunks[k].len >= 1
              /\ chunks[k].len <= 8192
              /\ chunks[k].off = TotalLen(SubSeq(chunks, 1, k - 1))
        /\ \A k \in 1..Len(bo_sent) : bo_sent[k].key = "FileDataDone" => k = Len(bo_sent)
        /\ Count(bo_sent, FileDataDone) <= 1
        /\ (Count(bo_sent, FileDataDone) = 1) =>
              (Len(chunks) = Ceil(bo_size, 8192) /\ TotalLen(chunks) = bo_size)
        /\ (bo_pc = "returned" /\ bo_ret = 0) =>
              /\ Len(chunks) = Ceil(bo_size, 8192)
              /\ TotalLen(chunks) = bo_size
              /\ Len(bo_sent) = Len(chunks) + 1
              /\ bo_sent[Len(bo_sent)] = FileDataDone
        /\ bo_send_failed =>
              /\ bo_pc = "returned"
              /\ bo_ret = -1
              /\ Count(bo_sent, FileDataDone) = 0

\* A payload of two full chunks and one byte has been sent completely.
C9_Witness ==
    /\ bo_pc = "returned"
    /\ bo_ret = 0
    /\ bo_size = 2 * 8192 + 1
    /\ Len(bo_sent) = 4
    /\ message.DataType = <<"SourceBootObjectV4">>

\* The string name begins with the string prefix.
BeginsWith(name, prefix) ==
    Len(name) >= Len(prefix) /\ SubSeq(name, 1, Len(prefix)) = prefix

\* An array holding an iBoot-prefixed component starts with one.
IBootFirst(image) ==
    (\E k \in 1..Len(image.items) : BeginsWith(image.items[k].personalized, iBoot))
        => BeginsWith(image.items[1].personalized, iBoot)

\* C10: in array form, whenever norimage holds the data of a component whose
\* name begins with "iBoot", its element at index 0 is the personalized data of
\* a component whose name begins with "iBoot"; the same holds of NorImageData in
\* the reply that was sent.
C10_IBootAtIndexZero ==
    /\ norimage.type = "PLIST_ARRAY" => IBootFirst(norimage)
    /\ \A r \in 1..Len(nor_sent) :
          LET image == plist_dict_get_item(nor_sent[r], "NorImageData")[1]
          IN  image.type = "PLIST_ARRAY" => IBootFirst(image)

\* A reply was sent whose array starts with iBoot although another component
\* was iterated, and sent, before it.
C10_Witness ==
    /\ nor_ret = 0
    /\ Len(nor_sent) = 1
    /\ LET image == plist_dict_get_item(nor_sent[1], "NorImageData")[1]
       IN  /\ image.type = "PLIST_ARRAY"
           /\ Len(image.items) >= 2
           /\ BeginsWith(image.items[1].personalized, iBoot)
           /\ ~BeginsWith(image.items[2].personalized, iBoot)
    /\ firmware_files[1].key = <<"i", "B", "S", "S">>
    /\ firmware_files[1].val = "PLIST_STRING"

\* The firmware files are exactly the components in names, each with a path.
FirmwareFilesAre(names) ==
    /\ {firmware_files[k].key : k \in 1..Len(firmware_files)} = names
    /\ \A k \in 1..Len(firmware_files) : firmware_files[k].val = "PLIST_STRING"

\* C11: for the firmware components LLB, iBoot and iBootData and a request
\* without FlashVersion1, in whatever order they are iterated, the reply that
\* is sent contains LlbImageData, its NorImageData is an array of length 2
\* whose element at index 0 is the personalized iBoot, and the personalized LLB
\* is not in the array.
C11_MinimalNorReply ==
    (/\ Len(nor_sent) = 1
     /\ flash_version_1 = 0
     /\ FirmwareFilesAre({LLB, iBoot, <<"i", "B", "o", "o", "t", "D", "a", "t", "a">>}))
    => LET reply == nor_sent[1]
           image == plist_dict_get_item(reply, "NorImageData")[1]
       IN  /\ Has(plist_dict_get_item(reply, "LlbImageData"))
           /\ image.type = "PLIST_ARRAY"
           /\ Len(image.items) = 2
           /\ image.items[1] = personalize_component(iBoot)
           /\ \A k \in 1..Len(image.items) : image.items[k] # personalize_component(LLB)

\* The data the items of a NOR image hold, in either form.
ImageData(image) ==
    IF image.type = "PLIST_DICT"
    THEN {image.items[k].val : k \in 1..Len(image.items)}
    ELSE {image.items[k] : k \in 1..Len(image.items)}

\* The keys a NOR image in dictionary form has.
ImageKeys(image) ==
    IF image.type = "PLIST_DICT"
    THEN {image.items[k].key : k \in 1..Len(image.items)}
    ELSE {}

NoLLBNoRestoreSEP(image) ==
    /\ personalize_component(LLB) \notin ImageData(image)
    /\ personalize_component(RestoreSEP) \notin ImageData(image)
    /\ LLB \notin ImageKeys(image)
    /\ RestoreSEP \notin ImageKeys(image)

\* C12: norimage, and NorImageData of every reply sent, in array and in
\* dictionary form, holds no entry made from LLB and none made from RestoreSEP;
\* in a reply the personalized LLB is the value of LlbImageData only and the
\* personalized RestoreSEP the value of RestoreSEPImageData only.
C12_LLBAndRestoreSEPSentApart ==
    /\ NoLLBNoRestoreSEP(norimage)
    /\ \A r \in 1..Len(nor_sent) :
          /\ NoLLBNoRestoreSEP(plist_dict_get_item(nor_sent[r], "NorImageData")[1])
          /\ \A k \in 1..Len(nor_sent[r]) :
                /\ nor_sent[r][k].val = personalize_component(LLB)
                      => nor_sent[r][k].key = "LlbImageData"
                /\ nor_sent[r][k].val = personalize_component(RestoreSEP)
                      => nor_sent[r][k].key = "RestoreSEPImageData"

\* A reply was sent, with RestoreSEPImageData, for firmware files that have
\* both LLB and RestoreSEP with a path, next to a third component that was sent.
C12_Witness ==
    /\ Len(nor_sent) = 1
    /\ Has(plist_dict_get_item(nor_sent[1], "RestoreSEPImageData"))
    /\ Len(firmware_files) = 3
    /\ \A k \in 1..3 : firmware_files[k].val = "PLIST_STRING"
    /\ {LLB, RestoreSEP} \subseteq {firmware_files[k].key : k \in 1..3}
    /\ Len(norimage.items) = 1

FirmwareFileKeys(files) == {files[k].key : k \in 1..Len(files)}

\* The Manifest entry e is a firmware payload, or a secondary firmware payload
\* that iBoot loads.
IsPayloadEntry(e) ==
    /\ e # NoEntry
    /\ e.is_fw \/ (e.is_secondary_fw /\ e.loaded_by_iboot)

\* C13 as stated: every Manifest entry of the build identity that is a firmware
\* payload, or a secondary firmware payload loaded by iBoot, is in
\* firmware_files once it has been read and stays there, and norimage holds
\* nothing made from LLB or RestoreSEP.
C13_EveryPayloadIsAFirmwareFile ==
    [][/\ FirmwareFileKeys(firmware_files) \subseteq FirmwareFileKeys(firmware_files')
       /\ IsPayloadEntry(nor_entry') => nor_entry'.component \in FirmwareFileKeys(firmware_files')
       /\ NoLLBNoRestoreSEP(norimage')]_vars

\* C13: when the firmware files are taken from the build identity, every
\* Manifest entry that is a firmware payload, or a secondary firmware payload
\* loaded by iBoot, and that has an Info.Path is in firmware_files once it has
\* been read; no component leaves firmware_files; and norimage holds nothing
\* made from LLB or RestoreSEP.
C13_PayloadWithPathIsAFirmwareFile ==
    [][/\ FirmwareFileKeys(firmware_files) \subseteq FirmwareFileKeys(firmware_files')
       /\ (IsPayloadEntry(nor_entry') /\ Has(nor_entry'.Path))
             => nor_entry'.component \in FirmwareFileKeys(firmware_files')
       /\ NoLLBNoRestoreSEP(norimage')]_vars

\* A secondary firmware payload loaded by iBoot, with a path, has just been
\* read from the build identity after another firmware file.
C13_Witness ==
    /\ nor_pc = "build_identity"
    /\ ~nor_entry.is_fw
    /\ nor_entry.is_secondary_fw
    /\ nor_entry.loaded_by_iboot
    /\ Has(nor_entry.Path)
    /\ Len(firmware_files) = 2
    /\ firmware_files[2].key = nor_entry.component

\* The responses whose signature blobs and tickets the archive holds.
ResponsesIn(file) ==
    {file[i].content.sig[1].blob.of :
        i \in {j \in 1..Len(file) : "sig" \in DOMAIN file[j].content /\ Has(file[j].content.sig)}}
    \cup
    {file[i].content.ticket[1].bbticket :
        i \in {j \in 1..Len(file) : "ticket" \in DOMAIN file[j].content
                                    /\ Has(file[j].content.ticket)}}
    \cup
    {file[i].content.bbticket :
        i \in {j \in 1..Len(file) : "bbticket" \in DOMAIN file[j].content}}

\* C14: a cached baseband ticket response is never replaced; the cache is set
\* only by a BasebandData request that carries a nonce while nothing is
\* cached, to the response of that request; and whenever a response is cached,
\* restore_sign_bbfw is called with it and the archive that is sent holds the
\* signature blobs and the ticket of no other response.
C14_CachedResponseIsKeptAndUsed ==
    [][/\ bbtss # NoResponse => bbtss' = bbtss
       /\ (bbtss = NoResponse /\ bbtss' # NoResponse)
             => (bb_pc = "extract" /\ Has(bb_nonce) /\ bbtss' = response)
       /\ (bb_pc = "extract" /\ bb_pc' = "sign" /\ bbtss' # NoResponse)
             => sign_bbtss' = bbtss'
       /\ (Len(bb_sent') > Len(bb_sent) /\ bbtss # NoResponse)
             => ResponsesIn(bb_sent'[Len(bb_sent')].BasebandData) \subseteq {bbtss.id}]_vars

\* A request with a nonce has set the cache, and a later request without a
\* nonce has sent an archive signed with the cached response.
C14_Witness ==
    /\ bbtss.id = 1
    /\ Len(tss_requests) = 2
    /\ ~Has(tss_requests[2].BbNonce)
    /\ Len(bb_sent) = 2
    /\ ResponsesIn(bb_sent[2].BasebandData) = {1}

\* C15: no baseband ticket request is sent to the ticket authority while the
\* session holds a cached baseband ticket response.
C15_NoTicketRequestOnceCached ==
    \A r \in 1..Len(tss_requests) : ~tss_requests[r].cached

IsSigned(entry) == "sig" \in DOMAIN entry.content /\ Has(entry.content.sig)

HasKeptExtension(entry) ==
    Has(ExtOf(entry.name)) /\ ExtOf(entry.name)[1] \in KeptExtensions

SignSucceeded == bb_pc = "sign_returned" /\ sign_res = 0

\* C16 as stated: after a successful restore_sign_bbfw every entry of the
\* repacked archive has had its signature blob installed or, when a nonce was
\* given, has one of the extensions .mbn, .fls, .elf, .bin.
C16_OnlySignedOrFirmwareEntries ==
    SignSucceeded =>
        \A i \in 1..Len(bbfw_file) :
            \/ IsSigned(bbfw_file[i])
            \/ Has(bb_nonce) /\ HasKeptExtension(bbfw_file[i])

\* C16: after a successful restore_sign_bbfw every entry of the repacked
\* archive has had its signature blob installed, or, when a nonce was given,
\* has one of the extensions .mbn, .fls, .elf, .bin or is the entry
\* bbticket.der that was added for files that are not FLS files.
C16_OnlySignedFirmwareOrTicketEntries ==
    SignSucceeded =>
        \A i \in 1..Len(bbfw_file) :
            \/ IsSigned(bbfw_file[i])
            \/ Has(bb_nonce) /\ HasKeptExtension(bbfw_file[i])
            \/ /\ Has(bb_nonce)
               /\ is_fls = 0
               /\ bbfw_file[i] = [name |-> <<"b", "b", "t", "i", "c", "k", "e", "t", ".", "d", "e", "r">>, content |-> sign_bbtss.BBTicket[1]]

\* With a nonce, an archive of three files was repacked: one signed, one kept
\* for its extension, one removed, and bbticket.der added.
C16_Witness ==
    /\ SignSucceeded
    /\ Has(bb_nonce)
    /\ Len(bbfw_ipsw) = 3
    /\ Len(bbfw_file) = 3
    /\ IsSigned(bbfw_file[1])
    /\ ~IsSigned(bbfw_file[2])
    /\ bbfw_file[3].name = <<"b", "b", "t", "i", "c", "k", "e", "t", ".", "d", "e", "r">>

\* The archive {dbl.mbn, ENPRG.mbn, README.txt} and a response with BBTicket
\* whose BasebandFirmware has DBL-Blob and ENANDPRG-Blob, in either order.
MbnScenario ==
    /\ bbfw_ipsw = ArchiveFrom({1, 2, 3}, 1)
    /\ Has(sign_bbtss.BBTicket)
    /\ Has(sign_bbtss.BasebandFirmware)
    /\ Len(sign_bbtss.BasebandFirmware[1]) = 2
    /\ {sign_bbtss.BasebandFirmware[1][k] : k \in 1..2} =
           {[key |-> <<"D", "B", "L", "-", "B", "l", "o", "b">>, type |-> "PLIST_DATA"],
            [key |-> <<"E", "N", "A", "N", "D", "P", "R", "G", "-", "B", "l", "o", "b">>, type |-> "PLIST_DATA"]}

EntriesNamed(file, fn) == {file[i] : i \in {j \in 1..Len(file) : file[j].name = fn}}

\* C17: in that scenario with a nonce, after a successful restore_sign_bbfw the
\* archive holds dbl.mbn with the DBL blob of the response installed,
\* ENPRG.mbn with its ENANDPRG blob installed, bbticket.der whose content is
\* the BBTicket value, and no README.txt; and whenever no nonce is given the
\* repacked archive holds no bbticket.der and no file with a ticket inserted.
C17_MbnArchiveSignedAndTicketed ==
    /\ (SignSucceeded /\ MbnScenario /\ Has(bb_nonce)) =>
          /\ \E e \in EntriesNamed(bbfw_file, <<"d", "b", "l", ".", "m", "b", "n">>) :
                /\ e.content.of = <<"d", "b", "l", ".", "m", "b", "n">>
                /\ e.content.sig = <<[blob |-> [key |-> <<"D", "B", "L", "-", "B", "l", "o", "b">>, of |-> sign_bbtss.id],
                                      parser |-> "mbn"]>>
          /\ \E e \in EntriesNamed(bbfw_file, <<"E", "N", "P", "R", "G", ".", "m", "b", "n">>) :
                /\ e.content.of = <<"E", "N", "P", "R", "G", ".", "m", "b", "n">>
                /\ e.content.sig = <<[blob |-> [key |-> <<"E", "N", "A", "N", "D", "P", "R", "G", "-", "B", "l", "o", "b">>, of |-> sign_bbtss.id],
                                      parser |-> "mbn"]>>
          /\ EntriesNamed(bbfw_file, <<"b", "b", "t", "i", "c", "k", "e", "t", ".", "d", "e", "r">>) =
                {[name |-> <<"b", "b", "t", "i", "c", "k", "e", "t", ".", "d", "e", "r">>, content |-> sign_bbtss.BBTicket[1]]}
          /\ EntriesNamed(bbfw_file, <<"R", "E", "A", "D", "M", "E", ".", "t", "x", "t">>) = {}
          /\ Len(bbfw_file) = 3
    /\ (SignSucceeded /\ ~Has(bb_nonce)) =>
          /\ EntriesNamed(bbfw_file, <<"b", "b", "t", "i", "c", "k", "e", "t", ".", "d", "e", "r">>) = {}
          /\ \A i \in 1..Len(bbfw_file) : ~Has(bbfw_file[i].content.ticket)

\* The scenario was signed successfully with a nonce.
C17_Witness ==
    /\ SignSucceeded
    /\ MbnScenario
    /\ Has(bb_nonce)
    /\ Len(bbfw_file) = 3

\* C18: when restore_sign_bbfw returns a failure the archive file is what was
\* extracted, unmodified; restore_send_baseband_data then sends nothing and
\* returns a negative value.
C18_FailedSigningCommitsAndSendsNothing ==
    [][/\ (bb_pc' = "sign_returned" /\ sign_res' # 0) => bbfw_file' = bbfw_ipsw
       /\ (bb_pc = "sign_returned" /\ sign_res # 0)
             => /\ bb_sent' = bb_sent
                /\ Len(bb_ret') = Len(bb_ret) + 1
                /\ bb_ret'[Len(bb_ret')] < 0]_vars

\* Signing failed after a signature blob had been installed in the open
\* archive, and the handler has returned.
C18_Witness ==
    /\ bb_pc = "idle"
    /\ Len(bb_ret) = 1
    /\ bb_ret[1] < 0
    /\ sign_res = -1
    /\ Len(signed_file_idxs) >= 1
    /\ bb_sent = <<>>

\* The handler has returned after it had opened the connection.
ReturnedAfterConnecting == bu_pc = "returned" /\ connection # "NULL"

\* The stream ends with a whole trailer record.
EndsWithTrailer(stream) ==
    /\ Len(stream) >= 2
    /\ stream[Len(stream) - 1].part = "header"
    /\ stream[Len(stream) - 1].name = <<"T", "R", "A", "I", "L", "E", "R", "!", "!", "!">>
    /\ stream[Len(stream)].part = "name"
    /\ stream[Len(stream)].name = <<"T", "R", "A", "I", "L", "E", "R", "!", "!", "!">>

\* C19: when the BootabilityBundle handler returns after it had opened the
\* connection, and no send on the connection has failed, the last record
\* written on the connection is the trailer record TRAILER!!!.
C19_StreamEndsWithTrailer ==
    (bu_handler = "BootabilityBundle" /\ ReturnedAfterConnecting /\ ~bu_send_failed)
        => EndsWithTrailer(bu_stream)

\* C20: a handler that gives up connecting has made 10 failed connection
\* attempts, and no handler ever makes more than 10.
C20_TenConnectionAttempts ==
    /\ bu_nconnect <= 10
    /\ (bu_pc = "returned" /\ connection = "NULL") => bu_nconnect = 10

\* C21: a handler that returns after it had opened the connection to the data
\* port has disconnected it, whatever it returns.
C21_ConnectionClosedOnReturn ==
    (bu_pc = "returned" /\ connection # "NULL") => connection = "disconnected"

\* The headers of the records of a stream, in order, without the header of a
\* trailer at the end.
RecordsBeforeTrailer(stream) ==
    LET IsHeader(p) == p.part = "header"
        headers == SelectSeq(stream, IsHeader)
    IN  IF Len(headers) > 0 /\ headers[Len(headers)].name = <<"T", "R", "A", "I", "L", "E", "R", "!", "!", "!">>
        THEN SubSeq(headers, 1, Len(headers) - 1)
        ELSE headers

\* The names the records of a listing are to have, in the order of the listing.
RECURSIVE BundleNames(_)
BundleNames(listing) ==
    IF listing = <<>> THEN <<>>
    ELSE LET name == Head(listing).name
         IN  (IF name = <<"B", "o", "o", "t", "a", "b", "i", "l", "i", "t", "y", "B", "u", "n", "d", "l", "e", "/", "R", "e", "s", "t", "o", "r", "e", "/", "F", "i", "r", "m", "w", "a", "r", "e", "/", "B", "o", "o", "t", "a", "b", "i", "l", "i", "t", "y", ".", "d", "m", "g", ".", "t", "r", "u", "s", "t", "c", "a", "c", "h", "e">>
              THEN <<<<"B", "o", "o", "t", "a", "b", "i", "l", "i", "t", "y", ".", "t", "r", "u", "s", "t", "c", "a", "c", "h", "e">>>>
              ELSE IF BeginsWith(name, <<"B", "o", "o", "t", "a", "b", "i", "l", "i", "t", "y", "B", "u", "n", "d", "l", "e", "/", "R", "e", "s", "t", "o", "r", "e", "/", "B", "o", "o", "t", "a", "b", "i", "l", "i", "t", "y", "/">>)
              THEN <<SubSeq(name, 39, Len(name))>>
              ELSE <<>>)
             \o BundleNames(Tail(listing))

\* C22: the records the BootabilityBundle handler has sent when it returns 0
\* are, in the order of the listing, one for each entry under
\* BootabilityBundle/Restore/Bootability/, named without that prefix, and one
\* named Bootability.trustcache for the trustcache entry, and none for any
\* other entry; and every record sent has uid 0 and gid 0.
C22_OneRecordPerBundleEntry ==
    /\ (bu_handler = "BootabilityBundle" /\ bu_pc = "returned" /\ bu_ret = 0)
          => LET records == RecordsBeforeTrailer(bu_stream)
             IN  /\ Len(records) = Len(BundleNames(bu_listing))
                 /\ \A k \in 1..Len(records) : records[k].name = BundleNames(bu_listing)[k]
    /\ \A k \in 1..Len(bu_stream) :
          /\ bu_stream[k].hdr.c_uid = <<"0", "0", "0", "0", "0", "0">>
          /\ bu_stream[k].hdr.c_gid = <<"0", "0", "0", "0", "0", "0">>

\* A full listing with the trustcache and an entry of another owner under the
\* prefix has been sent as two records.
C22_Witness ==
    /\ bu_handler = "BootabilityBundle" /\ bu_pc = "returned" /\ bu_ret = 0
    /\ Len(bu_listing) = MaxBundleEntries
    /\ \E k \in 1..Len(bu_listing) : bu_listing[k].name = TrustcacheName
    /\ \E k \in 1..Len(bu_listing) :
          BeginsWith(bu_listing[k].name, BootabilityPrefix) /\ bu_listing[k].st_uid # 0
    /\ Len(RecordsBeforeTrailer(bu_stream)) = 2

\* The number of data bytes sent for the record whose header is at position k.
DataBytes(stream, k) ==
    IF k + 2 <= Len(stream) /\ stream[k + 2].part = "data" THEN stream[k + 2].len ELSE 0

\* The record whose header is at position k was cut short by a failed send.
CutShort(stream, k) ==
    bu_send_failed /\ \A j \in (k + 1)..Len(stream) : stream[j].part # "header"

RecordSizesAgree ==
    \A k \in 1..Len(bu_stream) :
        /\ bu_stream[k].part = "header" =>
              /\ bu_stream[k].hdr.c_namesize = octal(6, Len(bu_stream[k].name) + 1)
              /\ k + 1 <= Len(bu_stream) =>
                    /\ bu_stream[k + 1].part = "name"
                    /\ bu_stream[k + 1].len = Len(bu_stream[k].name) + 1
              /\ ~CutShort(bu_stream, k) =>
                    bu_stream[k].hdr.c_filesize = octal(11, DataBytes(bu_stream, k))
        /\ bu_stream[k].part = "data" =>
              /\ bu_stream[k].hdr.c_mode \in {"S_IFREG", "S_IFLNK"}
              /\ bu_stream[k].len # 0

\* A step in which restore_bootability_send_one fails although no send on the
\* connection failed.
SizeMismatchStep ==
    /\ bu_handler = "BootabilityBundle"
    /\ bu_pc = "connected" /\ connection = "open"
    /\ bu_pc' = "returned" /\ bu_ret' = -1
    /\ ~bu_send_failed'

\* C23: in every record sent, c_namesize is the length of the name and its
\* NUL, the name is sent with its NUL, c_filesize is the number of data bytes
\* sent after the name, and data is sent only for regular files and symlinks
\* that are not empty; and when the extracted size of an entry differs from
\* its size in the archive, the handler fails and nothing of its record is
\* sent.
C23_RecordSizes ==
    /\ []RecordSizesAgree
    /\ [][SizeMismatchStep =>
            /\ bu_stream' = bu_stream
            /\ bu_listing[bu_idx].type \in {"S_IFREG", "S_IFLNK"}
            /\ bu_listing[bu_idx].st_size # 0]_vars

\* A regular file has been sent with its three data bytes, and a directory of
\* size 4 without data.
C23_Witness ==
    /\ bu_pc = "returned" /\ bu_ret = 0 /\ ~bu_send_failed
    /\ \E k \in 1..Len(bu_stream) :
          /\ bu_stream[k].part = "header"
          /\ bu_stream[k].hdr.c_mode = "S_IFREG"
          /\ DataBytes(bu_stream, k) = 3
    /\ \E k \in 1..Len(bu_stream) :
          /\ bu_stream[k].part = "header"
          /\ bu_stream[k].hdr.c_mode = "S_IFDIR"
          /\ bu_stream[k].hdr.c_filesize = <<"0", "0", "0", "0", "0", "0", "0", "0", "0", "0", "0">>

\* The last ProgressMsg was handled with both of its fields read.
ProgressHandled == pr_n > 0 /\ pr_ret = 0

GasGaugeStep ==
    /\ protocol_version = 13
    /\ pr_n' = pr_n + 1
    /\ pr_msg'.Operation = <<47>>
    /\ pr_msg'.Progress = <<50>>

\* C25 as stated: under protocol version 13, a ProgressMsg with Operation 47
\* and Progress 50 is adapted to 48, is logged as "Updating gas gauge
\* software" and reports to no step of the progress sink.
C25_Op47IsGasGauge ==
    [][GasGaugeStep =>
          /\ adapted_operation' = 48
          /\ pr_info' = <<"Updating gas gauge software">>
          /\ pr_step' = NoField]_vars

\* C25, amended: it is adapted to 48, reports to no step of the progress
\* sink, and is logged as "Preparing for baseband update", the string of 48,
\* unless the message handled before it had Operation 47 too, when nothing
\* is logged.
C25_Op47IsPrepareBaseband ==
    [][GasGaugeStep =>
          /\ adapted_operation' = 48
          /\ pr_info' = IF lastop = 47 THEN NoField
                        ELSE <<"Preparing for baseband update">>
          /\ pr_step' = NoField]_vars

C25_Witness ==
    /\ protocol_version = 13
    /\ pr_n > 0
    /\ pr_msg.Operation = <<47>>
    /\ pr_msg.Progress = <<50>>
    /\ adapted_operation = 48
    /\ pr_info = <<"Preparing for baseband update">>

\* The StatusMsg being dispatched carries an AMRError that is not 0.
StatusWithError ==
    /\ pc = "dispatch"
    /\ message.MsgType = "StatusMsg"
    /\ Has(message.AMRError)
    /\ (message.AMRError[1].hi # 0 \/ message.AMRError[1].lo # 0)

\* C26: for a StatusMsg with an AMRError e that is not 0,
\* restore_handle_status_msg returns a value below 0, which is -e whenever e
\* is below 2^31; it returns a value above 0 for no StatusMsg.
C26_ErrorStatusIsNegative ==
    [][/\ (StatusWithError /\ pc' # pc) =>
             /\ err' < 0
             /\ (message.AMRError[1].hi = 0 /\ message.AMRError[1].lo > 0)
                   => err' = -message.AMRError[1].lo
       /\ (pc = "dispatch" /\ message.MsgType = "StatusMsg" /\ pc' # pc) => err' <= 0]_vars

\* The dictionary d without its item key.
Without(d, key) ==
    LET Other(item) == item.key # key
    IN  SelectSeq(d, Other)

RootTicketDataSent == plist_dict_get_item(rt_sent[1], "RootTicketData")

\* C28: the RootTicketData sent is the user's root ticket when there is one;
\* without one it is the ApImg4Ticket of the ticket response when
\* image4supported is true and its APTicket when it is false (a dictionary
\* without RootTicketData is sent only with FLAG_CUSTOM and without
\* image4supported); and without a user ticket, a ticket response and
\* FLAG_CUSTOM the handler sends nothing and returns -1.
C28_RootTicketDataSlot ==
    rt_pc = "returned" =>
        LET in == rt_in[1]
        IN  /\ Len(rt_sent) <= 1
            /\ Len(rt_sent) = 1 <=> rt_ret = 0
            /\ (Len(rt_sent) = 1 /\ Has(in.root_ticket))
                  => RootTicketDataSent = in.root_ticket
            /\ (Len(rt_sent) = 1 /\ ~Has(in.root_ticket) /\ in.image4supported)
                  => /\ Has(RootTicketDataSent)
                     /\ RootTicketDataSent = in.tss[1].ApImg4Ticket
            /\ (Len(rt_sent) = 1 /\ ~Has(in.root_ticket) /\ ~in.image4supported)
                  => IF in.custom
                     THEN ~Has(RootTicketDataSent)
                     ELSE /\ Has(RootTicketDataSent)
                          /\ RootTicketDataSent = in.tss[1].APTicket
            /\ (~Has(in.root_ticket) /\ ~Has(in.tss) /\ ~in.custom)
                  => rt_sent = <<>> /\ rt_ret = -1

\* The APTicket of a response that has both tickets has been sent.
C28_Witness ==
    /\ rt_pc = "returned"
    /\ ~Has(rt_in[1].root_ticket)
    /\ ~rt_in[1].image4supported
    /\ Has(rt_in[1].tss)
    /\ Has(rt_in[1].tss[1].ApImg4Ticket)
    /\ Len(rt_sent) = 1
    /\ RootTicketDataSent = <<"ap ticket">>

\* A DataRequestMsg is handed to restore_handle_data_request_msg.
DataRequestStep ==
    pc = "dispatch" /\ message.MsgType = "DataRequestMsg" /\ pc' # pc

\* C29: restore_handle_data_request_msg returns -2 exactly when the DataType
\* is SystemImageData or RecoveryOSASRImage and sending the filesystem failed,
\* -1 exactly when the action of another DataType was run and failed, and 0
\* otherwise; for an unknown or missing DataType it sends nothing, leaves the
\* flags alone and returns 0.
C29_DataRequestResult ==
    [][DataRequestStep =>
          LET type == message.DataType
              filesystem == Has(type) /\ type[1] \in {"SystemImageData", "RecoveryOSASRImage"}
              known == Has(type) /\ type[1] \in HandledDataTypes
              excluded == Has(type) /\ type[1] = "NORData" /\ "FLAG_EXCLUDE" \in flags
          IN  /\ err' \in {-2, -1, 0}
              /\ err' = -2 <=> (filesystem /\ message.failed)
              /\ err' = -1 <=> (known /\ ~filesystem /\ ~excluded /\ message.failed)
              /\ ~known => (sent' = sent /\ flags' = flags /\ err' = 0)]_vars

\* A filesystem request has failed with -2.
C29_Witness ==
    /\ pc = "loop"
    /\ ndispatch = 1
    /\ err = -2

\* C30: when a component whose image data was asked for could not be
\* extracted or could not be personalized, restore_send_image_data returns an
\* error and has sent no reply.
C30_FailedComponentSendsNothing ==
    (im_pc = "returned" /\ im_failed) => (im_ret < 0 /\ im_sent = <<>>)

\* ---- C31

\* The helper of a FirmwareUpdaterData request found the TSS response to be
\* without the ticket of its subsystem.
TicketMissing ==
    /\ fu_log # <<>>
    /\ fu_log[1] = "ERROR: No ticket in TSS response, this might not work"

\* C31 as stated: when the TSS response lacks the ticket key of the subsystem,
\* no FirmwareResponseData is sent and the handler returns a negative value.
C31_MissingTicketFails ==
    (fu_pc = "returned" /\ TicketMissing) => (fu_sent = <<>> /\ fu_ret < 0)

\* C31 amended: a TSS response without the ticket key of the subsystem is only
\* logged. When the component can be had and the send succeeds, the response,
\* with FirmwareData added, is sent as FirmwareResponseData and the handler
\* returns 0; otherwise it returns -1 with nothing sent. A request whose TSS
\* request returned no response at all fails with nothing sent.
C31_MissingTicketIsLogged ==
    /\ (fu_pc = "returned" /\ TicketMissing) =>
          IF fu_in[1].component /\ fu_in[1].send_ok
          THEN /\ fu_ret = 0
               /\ fu_sent = <<[FirmwareResponseData |->
                                 plist_dict_set_item(fu_in[1].response[1], "FirmwareData",
                                                     "component_data")]>>
          ELSE fu_ret = -1 /\ fu_sent = <<>>
    /\ (fu_pc = "returned" /\ ~Has(fu_in[1].response)) => (fu_ret = -1 /\ fu_sent = <<>>)

\* A request whose response had no ticket was answered and returned 0.
C31_Witness ==
    /\ fu_pc = "returned"
    /\ TicketMissing
    /\ ~Has(plist_dict_get_item(fu_in[1].response[1], "SE,Ticket"))
    /\ fu_in[1].Arguments[1].MessageArgUpdaterName[1] = "SE"
    /\ fu_ret = 0
    /\ fu_sent # <<>>

\* ---- C32

\* restore_reboot has returned from its wait.
RebootReturned ==
    /\ rb_pc = "idle"
    /\ rb_call = "restore_reboot"
    /\ rb_ret_at # -1

\* C32: restore_reboot returns 0 if the device left restore mode within the
\* 30 s after the reboot was sent, whatever other events were signalled in
\* between, and returns -1 only when the 30 s have elapsed.
C32_RebootResult ==
    RebootReturned =>
        /\ rb_left # -1 => rb_ret = 0
        /\ rb_ret = -1 => rb_ret_at = WaitTicks

\* ---- C39

\* C39: over any sequence of restore_open_with_timeout, restore_reboot and
\* restore_client_free calls on one client, no restore channel handle is
\* released more than once, and once restore_reboot has run the session does
\* not hold a handle that was released.
C39_HandleReleasedOnce ==
    /\ \A h \in 1..MaxOpens : handle_frees[h] <= 1
    /\ (rb_pc = "idle" /\ nreboots > 0) =>
          (cl_client = 0 \/ handle_frees[cl_client] = 0)

\* ---- C33

\* A NORData request is about to be handled with FLAG_EXCLUDE set.
NorExcludedStep ==
    /\ pc = "dispatch"
    /\ message.MsgType = "DataRequestMsg"
    /\ message.DataType = <<"NORData">>
    /\ "FLAG_EXCLUDE" \in flags

\* C33: with FLAG_EXCLUDE set, the handling of a NORData request sends
\* nothing and sets FLAG_QUIT with no error pending; from the loop condition
\* with FLAG_QUIT set the driver goes to the teardown without another
\* restored_receive; and the teardown frees the session and returns the
\* pending err, which is 0.
C33_ExcludedNorEndsSession ==
    /\ [][ NorExcludedStep =>
              /\ sent' = sent
              /\ "FLAG_QUIT" \in flags'
              /\ err' = 0
              /\ pc' = "loop" ]_vars
    /\ [][ (pc = "loop" /\ "FLAG_QUIT" \in flags) =>
              /\ pc' = "teardown"
              /\ nreceive' = nreceive
              /\ err' = err
              /\ sent' = sent ]_vars
    /\ [][ pc = "teardown" =>
              /\ pc' = "returned"
              /\ ret' = err
              /\ session' = "freed"
              /\ released' = released \o TeardownReleases(rproxy) ]_vars

\* restore_device has returned 0 after FLAG_QUIT was set by neither a failed
\* handler nor a final status: by a NORData request under FLAG_EXCLUDE.
C33_Witness ==
    /\ pc = "returned"
    /\ ret = 0
    /\ session = "freed"
    /\ "FLAG_QUIT" \in flags
    /\ "FLAG_EXCLUDE" \in flags
    /\ restore_finished = 0
    /\ ~handlerFailed
    /\ nreceive = 1
    /\ sent = <<>>

\* ---- C34

\* C34: whatever <Element>-Blob keys the BasebandFirmware dictionary holds and
\* in whatever order, every archive entry in which a signature blob was
\* installed was parsed and re-signed by the parser of its own file name's
\* extension: the FLS parser for .fls, the MBN parser otherwise.
C34_ParserOfOwnExtension ==
    \A i \in 1..Len(za) :
        IsSigned(za[i]) =>
            (za[i].content.sig[1].parser = "fls"
                <=> ExtOf(za[i].name) = <<<<".", "f", "l", "s">>>>)

\* ---- C38

\* The items of the BasebandFirmware dictionary whose blob restore_sign_bbfw
\* installs, by position.
BlobItems ==
    IF Has(sign_bbtss.BasebandFirmware)
    THEN {k \in 1..Len(sign_bbtss.BasebandFirmware[1]) :
             /\ EndsInBlob(sign_bbtss.BasebandFirmware[1][k].key)
             /\ sign_bbtss.BasebandFirmware[1][k].type = "PLIST_DATA"}
    ELSE {}

BlobElement(k) == ElementOfKey(sign_bbtss.BasebandFirmware[1][k].key)

BlobFile(k) == restore_get_bbfw_fn_for_element(BlobElement(k))[1]

\* From the first item whose file is an FLS file on, the items are handled as
\* FLS files.
OnFlsPath(k) ==
    \E j \in BlobItems : j <= k /\ ExtOf(BlobFile(j)) = <<<<".", "f", "l", "s">>>>

PresentSigned(fn) ==
    \E i \in 1..Len(bbfw_file) : bbfw_file[i].name = fn /\ IsSigned(bbfw_file[i])

\* C38 as stated: after a successful restore_sign_bbfw every archive entry
\* whose signature blob was installed is present in the repacked archive, with
\* and without a nonce, for FLS and MBN files alike.
C38_SignedEntriesKept ==
    SignSucceeded => \A k \in BlobItems : PresentSigned(BlobFile(k))

\* C38 amended: after a successful restore_sign_bbfw every archive entry whose
\* signature blob was installed is present in the repacked archive, except
\* that without a nonce an entry signed as an FLS file is present only if it
\* is the RamPSI module's: the other entries signed as FLS files are removed.
C38_SignedEntriesKeptButFlsStageOne ==
    SignSucceeded =>
        \A k \in BlobItems :
            IF Has(bb_nonce) \/ ~OnFlsPath(k) \/ BlobElement(k) = <<"R", "a", "m", "P", "S", "I">>
            THEN PresentSigned(BlobFile(k))
            ELSE \A i \in 1..Len(bbfw_file) : bbfw_file[i].name # BlobFile(k)

\* Without a nonce RamPSI-Blob and FlashPSI-Blob were installed; psi_ram.fls
\* is in the repacked archive and psi_flash.fls is not.
C38_Witness ==
    /\ SignSucceeded
    /\ ~Has(bb_nonce)
    /\ Cardinality(BlobItems) = 2
    /\ PresentSigned(<<"p", "s", "i", "_", "r", "a", "m", ".", "f", "l", "s">>)
    /\ \E k \in BlobItems : BlobElement(k) = <<"F", "l", "a", "s", "h", "P", "S", "I">>
    /\ \A i \in 1..Len(bbfw_file) :
          bbfw_file[i].name # <<"p", "s", "i", "_", "f", "l", "a", "s", "h", ".", "f", "l", "s">>

\* ---- C35

\* C35: the NorImageData of a NORData reply is a dictionary exactly when the
\* request's FlashVersion1 argument is true, and an array when the argument is
\* absent or false.
C35_DictionaryOnlyForTrueFlashVersion1 ==
    \A r \in 1..Len(nor_sent) :
        LET image == plist_dict_get_item(nor_sent[r], "NorImageData")[1]
        IN  IF FlashVersion1 = <<TRUE>>
            THEN image.type = "PLIST_DICT"
            ELSE image.type = "PLIST_ARRAY"

\* ---- C36

\* C36: the session is marked finished (restore_finished set,
\* ReceivedFinalStatusMsg sent, FLAG_QUIT set by the StatusMsg branch) only by
\* the handling of a StatusMsg that carries a Status of 0; a StatusMsg
\* without a Status does not end the session.
C36_FinishedOnlyOnStatusZero ==
    [][ (\/ restore_finished = 0 /\ restore_finished' = 1
         \/ sent' = Append(sent, "ReceivedFinalStatusMsg"))
        => /\ pc = "dispatch"
           /\ message.MsgType = "StatusMsg"
           /\ message.Status = <<0>> ]_vars

\* ---- C37

\* restore_sign_bbfw has been called for a BasebandData request that carries
\* a nonce.
SigningWithNonce ==
    Has(bb_nonce) /\ bb_pc \in {"sign", "sign_items", "sign_ticket", "sign_close"}

\* C37 as stated: while a BasebandData request that carries a nonce is
\* signed, the ticket response restore_sign_bbfw works with is the answer to
\* a ticket request whose BbNonce was the nonce of this request: not one
\* cached for another nonce, and not the copy of the AP ticket response made
\* at session start.
C37_SignedWithResponseForTheNonce ==
    SigningWithNonce =>
        /\ sign_bbtss.id \in 1..Len(tss_requests)
        /\ tss_requests[sign_bbtss.id].BbNonce = bb_nonce

\* C37 amended: while a BasebandData request that carries a nonce is signed,
\* the ticket response restore_sign_bbfw works with is the one cached in the
\* session: the copy of the AP ticket response made at session start, or the
\* answer to a ticket request that was made with a nonce while nothing was
\* cached, whatever the nonce of the request being signed.
C37_SignedWithCachedResponse ==
    SigningWithNonce =>
        /\ sign_bbtss = bbtss
        /\ \/ sign_bbtss.id = 0
           \/ /\ sign_bbtss.id \in 1..Len(tss_requests)
              /\ Has(tss_requests[sign_bbtss.id].BbNonce)
              /\ ~tss_requests[sign_bbtss.id].cached

\* A request with one nonce is signed with the response that was cached for
\* another nonce.
C37_Witness ==
    /\ SigningWithNonce
    /\ sign_bbtss.id \in 1..Len(tss_requests)
    /\ Has(tss_requests[sign_bbtss.id].BbNonce)
    /\ tss_requests[sign_bbtss.id].BbNonce # bb_nonce

\* ---- C40

\* The device has delivered a StatusMsg with Status 0.
FinalStatusDelivered ==
    /\ pc = "dispatch"
    /\ message.MsgType = "StatusMsg"
    /\ message.Status = <<0>>

\* restored_receive has just reported an error that is no timeout.
ReceiveErrorReported ==
    /\ pc \in {"loop", "teardown"}
    /\ nreceive > 0
    /\ restore_error = "RESTORE_E_MUX_ERROR"

\* restore_device has returned with the side channel and the session released.
ReturnedAfterTeardown ==
    /\ pc = "returned"
    /\ session = "freed"
    /\ rproxy # 0 => \E i \in 1..Len(released) : released[i] = ProxyName(rproxy)

\* C40: under fairness of the loop, once the device has delivered a StatusMsg
\* with Status 0 or restored_receive has reported an error that is no
\* timeout, restore_device eventually releases the side channel and the
\* session and returns; and whatever was handled in the loop before,
\* restore_device has not returned from the loop without that teardown.
C40_LoopEndsWithTeardown ==
    /\ (FinalStatusDelivered \/ ReceiveErrorReported) ~> ReturnedAfterTeardown
    /\ []((pc = "returned" /\ nreceive > 0) => ReturnedAfterTeardown)

====
